---- MODULE Spec2Model ----
(***************************************************************************)
(* Job orchestration pipeline of the code-generation service.              *)
(*                                                                         *)
(* The module models                                                       *)
(*   - JobManager (services/jobManager): one JSON record per job id,       *)
(*     createJob / getJob / updateJob / deleteJob;                         *)
(*   - the three pipeline runners generateAppAsync, analyzeCodeAsync and   *)
(*     modernizeCodeAsync, one await per step;                             *)
(*   - the cancel handler of the status router (DELETE /api/status/:id);   *)
(*   - CodeGenerator.generateMultiPlatformApp, its per-platform tasks and  *)
(*     the Promise.all join.                                               *)
(*                                                                         *)
(* A job record is a TLA+ record whose DOMAIN is the set of fields the     *)
(* JSON file holds: a field the code never wrote is absent, as in the      *)
(* file.  Timestamps are kept as "set" (TRUE); request payload fields      *)
(* (description, preferences, filename, ...) are never read by the         *)
(* modelled code and are left out.                                         *)
(***************************************************************************)
EXTENDS Integers, Sequences, FiniteSets, TLC

(* ------------------------------ bounds -------------------------------- *)

\* Cancel requests (DELETE /api/status/:jobId) issued per job.
MaxCancels == 1
\* deleteJob calls issued per job.
MaxDeletes == 1
\* Filesystem faults (readJson / writeJson raising) injected per job.
MaxFaults == 1

(* --------------------------- fixed universes --------------------------- *)

Jobs == {"J1"}

JobTypes == {"generate", "analyze", "modernize"}

\* Platform identifiers a request may name.  "ios" and "web" stand for the four
\* registered agents (ios, android, web, backend: same code, different prompt);
\* "desktop" names no property of this.agents; "constructor" names no agent
\* either, but this.agents is an object literal and inherits that property.
Platforms == {"ios", "web", "desktop", "constructor"}

\* The keys of this.agents.
Registered == {"ios", "web"}

\* Property names every object literal inherits from Object.prototype.
Inherited == {"constructor"}

\* The platforms generateSchema (Joi) lets through to generateAppAsync.
Validated == Registered

\* The record of a job id that has no file under ./jobs.
NoJob == [absent |-> TRUE]

Terminal == {"completed", "failed", "cancelled"}

VARIABLES
    store,      \* job id -> content of ./jobs/<id>.json, or NoJob
    jtype,      \* job id -> which runner was started for it ("none" before)
    pc,         \* job id -> position of the runner
    stage,      \* job id -> index of the runner's current updateJob call
    rjob,       \* job id -> `job` read by the runner's pending updateJob
    rerr,       \* job id -> message of the error the runner caught
    cpc,        \* job id -> position of the cancel handler
    cjob,       \* job id -> `job` read by the cancel handler's updateJob
    ncancel,    \* job id -> cancel requests issued so far
    ndelete,    \* job id -> deleteJob calls issued so far
    nfault,     \* job id -> filesystem faults injected so far
    platforms,  \* job id -> planningData.platforms of the job's generation call
    gpc,        \* job id -> position of generateMultiPlatformApp
    task,       \* job id -> platform -> state of that platform's map callback
    results,    \* job id -> the `results` object of generateMultiPlatformApp
    responseText, \* the argument of the parseAIResponse call under study
    ppc,        \* position of that call: "direct", "fence", "brace", "done"
    tier,       \* the tier (1, 2, 3) at which the call returned or raised
    out,        \* what the call produced: NoValue, a value or an error
    files,      \* file name in ./jobs -> content of the file, NoJob or a torn file
    clock,      \* the time of the last createJob: the createJob calls so far
    wcall,      \* the createJob or updateJob call in progress, or NoCall
    scall,      \* the status request in progress, or NoCall
    sjob,       \* `job` in the status route: what its getJob returned
    reply,      \* the last response of the status route
    ret,        \* the outcome of the last createJob or updateJob call
    page,       \* the outcome of the last listJobs call
    ncall,      \* calls on the jobs directory issued so far
    agent,      \* the generateCode call of a platform agent under study
    outs,       \* component -> what its parseAIResponse produced for responseText
    cleanup     \* the cleanupOldJobs call under study

vars == <<store, jtype, pc, stage, rjob, rerr, cpc, cjob, ncancel, ndelete, nfault,
          platforms, gpc, task, results, responseText, ppc, tier, out,
          files, clock, wcall, scall, sjob, reply, ret, page, ncall,
          agent, outs, cleanup>>

\* The variables of the job store, the runners and the cancel handler.
pipeVars == <<store, jtype, pc, stage, rjob, rerr, cpc, cjob, ncancel, ndelete, nfault>>

\* The variables of generateMultiPlatformApp.
genVars == <<platforms, gpc, task, results>>

\* The variables of a parseAIResponse call.
parseVars == <<responseText, ppc, tier, out>>

\* The variables of the jobs directory and of the calls made on it directly.
storeVars == <<files, clock, wcall, scall, sjob, reply, ret, page, ncall>>

\* The variables of the calls studied on their own: a platform agent's
\* generateCode, the parseAIResponse of every component, cleanupOldJobs.
auxVars == <<agent, outs, cleanup>>

(* ----------------------------- JobManager ------------------------------ *)

\* An updateJob that stores the updates alone, without the record it read.
MergeJobOnlyUpdates(job, updates) ==
    [f \in (DOMAIN updates) \cup {"updatedAt"} |->
        IF f = "updatedAt" THEN TRUE ELSE updates[f]]

\* An updateJob that rewrites the record it read and drops the updates.
MergeJobDropUpdates(job, updates) ==
    [f \in (DOMAIN job) \cup {"updatedAt"} |->
        IF f = "updatedAt" THEN TRUE ELSE job[f]]

\* updateJob's merge: { ...job, ...updates, updatedAt }.
MergeJob(job, updates) ==
    [f \in (DOMAIN job) \cup (DOMAIN updates) \cup {"updatedAt"} |->
        IF f = "updatedAt" THEN TRUE
        ELSE IF f \in DOMAIN updates THEN updates[f]
        ELSE job[f]]

\* createJob's record: { id, ...jobData, createdAt, updatedAt }.
NewJob(jobId, jobData) ==
    [f \in {"id", "createdAt", "updatedAt"} \cup (DOMAIN jobData) |->
        IF f = "id" THEN jobId
        ELSE IF f \in {"createdAt", "updatedAt"} THEN TRUE
        ELSE jobData[f]]

\* getJob: the parsed file, or null when the file is missing.
GetJob(jobId) == store[jobId]

(* --------------------------- pipeline tables --------------------------- *)

\* jobData handed to createJob by the three POST handlers.
InitialData(t) ==
    IF t = "generate" THEN [type |-> "generate", status |-> "planning"]
    ELSE IF t = "analyze" THEN [type |-> "analyze", status |-> "extracting"]
    ELSE [type |-> "modernize", status |-> "extracting"]

\* packageGeneratedCode's value: { ...generationResult, zipPath, zipSize,
\* downloadUrl }, of which the per-platform results are kept.
PackagedResult(generationResults) == [kind |-> "package", results |-> generationResults]

\* The updateJob calls of generateAppAsync's try block, in order.
GenerateUpdates(generationResults) ==
    << [status |-> "planning"],
       [status |-> "generating", planningData |-> TRUE, progress |-> 25],
       [status |-> "packaging", progress |-> 80],
       [status |-> "completed", progress |-> 100,
        result |-> PackagedResult(generationResults), completedAt |-> TRUE] >>

\* An analyzeCodeAsync that announces the analysis before the extraction.
AnalyzeUpdatesReordered ==
    << [status |-> "analyzing", progress |-> 30],
       [status |-> "extracting", progress |-> 10],
       [status |-> "generating_recommendations", progress |-> 70],
       [status |-> "completed", progress |-> 100, result |-> [kind |-> "analysis"],
        completedAt |-> TRUE] >>

\* The updateJob calls of analyzeCodeAsync's try block, in order.
AnalyzeUpdates ==
    << [status |-> "extracting", progress |-> 10],
       [status |-> "analyzing", progress |-> 30],
       [status |-> "generating_recommendations", progress |-> 70],
       [status |-> "completed", progress |-> 100, result |-> [kind |-> "analysis"],
        completedAt |-> TRUE] >>

\* The updateJob calls of modernizeCodeAsync's try block, in order.
ModernizeUpdates ==
    << [status |-> "extracting", progress |-> 10],
       [status |-> "analyzing", progress |-> 25],
       [status |-> "modernizing", progress |-> 50],
       [status |-> "packaging", progress |-> 85],
       [status |-> "completed", progress |-> 100, result |-> [kind |-> "modernized"],
        completedAt |-> TRUE] >>

\* The updateJob calls of job j's runner.
StageUpdates(j) ==
    IF jtype[j] = "generate" THEN GenerateUpdates(results[j])
    ELSE IF jtype[j] = "analyze" THEN AnalyzeUpdates
    ELSE ModernizeUpdates

\* The collaborator call awaited after the k-th updateJob of runner t.
StageWork(t, k) ==
    IF t = "generate" THEN
        <<"analyzeDescription", "generateMultiPlatformApp", "packageGeneratedCode">>[k]
    ELSE IF t = "analyze" THEN
        <<"extractCodeFiles", "analyzeExistingCode", "generateRecommendations">>[k]
    ELSE
        <<"extractCodeFiles", "analyzeExistingCode", "modernizeCode",
          "packageModernizedCode">>[k]

\* generateRecommendations returns a literal and awaits nothing: it cannot raise.
CanThrow(work) == work # "generateRecommendations"

\* error.message of the Error a failing collaborator raises.
WorkError(work) ==
    CASE work = "analyzeDescription" -> "Planning analysis failed"
      [] work = "analyzeExistingCode" -> "Code analysis failed"
      [] work = "modernizeCode" -> "Modernization failed"
      [] work = "extractCodeFiles" -> "extract failed"
      [] work = "generateMultiPlatformApp" -> "generation failed"
      [] OTHER -> "packaging failed"

\* The `results` object before any callback wrote to it: {}.
NoResults == [p \in {} |-> [success |-> FALSE]]

NotFoundError == "Job not found"
WriteError == "write failed"

\* A catch block that records the failure without its message.
FailedUpdateNoError(message) == [status |-> "failed", failedAt |-> TRUE]

\* A catch block that also resets the progress.
FailedUpdateResetProgress(message) ==
    [status |-> "failed", error |-> message, failedAt |-> TRUE, progress |-> 0]

\* The update of the runners' catch blocks.
FailedUpdate(message) == [status |-> "failed", error |-> message, failedAt |-> TRUE]

\* A cancel handler that writes a status of its own.
CancelUpdateAborted == [status |-> "aborted", cancelledAt |-> TRUE]

\* The update of the cancel handler.
CancelUpdate == [status |-> "cancelled", cancelledAt |-> TRUE]

(* --------------------------- parseAIResponse --------------------------- *)

\* The longest response text studied, in tokens.
MaxTextLen == 5

\* A response text is a sequence of tokens: "F" is a fence marker ```, "j" the
\* word json, "{" and "}" the braces, "1" a digit, "w" a blank or a newline,
\* "p" any other character of prose.
Alphabet == {"F", "j", "{", "}", "1", "w", "p"}

Texts == UNION {[1..n -> Alphabet] : n \in 0..MaxTextLen}

\* Nothing produced yet.
NoValue == [pending |-> TRUE]

\* A parser that answers with a default value instead of the parsed one.
ReturnedDefault(v) == [ok |-> TRUE, value |-> [kind |-> "object"]]

\* `return JSON.parse(...)`: the call resolves to the parsed value.
Returned(v) == [ok |-> TRUE, value |-> v]

\* A parser that answers a failure with an empty object.
RaisedAsEmptyObject == [ok |-> TRUE, value |-> [kind |-> "object"]]

\* throw new Error(`Could not process AI response: ...`).
Raised == [ok |-> FALSE, error |-> "Could not process AI response"]

\* String.prototype.trim, also what \s* strips at both ends of the capture.
Trim(s) ==
    LET keep == {i \in 1..Len(s) : s[i] # "w"}
    IN  IF keep = {} THEN << >>
        ELSE SubSeq(s, CHOOSE i \in keep : \A k \in keep : i <= k,
                       CHOOSE i \in keep : \A k \in keep : i >= k)

\* JSON.parse on the token texts: blanks around the value are skipped; a run
\* of digits is a number, "{" blanks "}" is the empty object, anything else is
\* a SyntaxError.
JSONParse(s) ==
    LET t == Trim(s)
    IN  IF Len(t) >= 1 /\ \A i \in 1..Len(t) : t[i] = "1"
          THEN [ok |-> TRUE, value |-> [kind |-> "number", digits |-> Len(t)]]
        ELSE IF /\ Len(t) >= 2
                /\ t[1] = "{"
                /\ t[Len(t)] = "}"
                /\ \A i \in 2..(Len(t) - 1) : t[i] = "w"
          THEN [ok |-> TRUE, value |-> [kind |-> "object"]]
        ELSE [ok |-> FALSE]

\* The positions of token c in s.
Positions(s, c) == {i \in 1..Len(s) : s[i] = c}

\* responseText.match(/```(?:json)?\s*([\s\S]*?)\s*```/)[1], or the empty text
\* when there is no match.  The leftmost match opens at the first fence marker
\* and, the capture being lazy, closes at the next one; the optional tag and
\* the blanks at both ends are left out of the capture.
JsonMatch(s) ==
    LET fences == Positions(s, "F")
    IN  IF Cardinality(fences) < 2 THEN << >>
        ELSE LET open == CHOOSE i \in fences : \A k \in fences : i <= k
                 close == CHOOSE i \in fences \ {open} :
                              \A k \in fences \ {open} : i <= k
                 inner == SubSeq(s, open + 1, close - 1)
             IN  IF Len(inner) >= 1 /\ inner[1] = "j"
                   THEN Trim(SubSeq(inner, 2, Len(inner)))
                   ELSE Trim(inner)

\* responseText.indexOf('{'), counted from 1; 0 when there is none.
FirstBrace(s) ==
    IF Positions(s, "{") = {} THEN 0
    ELSE CHOOSE i \in Positions(s, "{") : \A k \in Positions(s, "{") : i <= k

\* responseText.lastIndexOf('}'), counted from 1; 0 when there is none.
LastBrace(s) ==
    IF Positions(s, "}") = {} THEN 0
    ELSE CHOOSE i \in Positions(s, "}") : \A k \in Positions(s, "}") : i >= k

\* firstBrace !== -1 && lastBrace !== -1 && lastBrace > firstBrace.
HasBraceSlice(s) == FirstBrace(s) # 0 /\ LastBrace(s) # 0 /\ LastBrace(s) > FirstBrace(s)

\* jsonString = responseText.substring(firstBrace, lastBrace + 1).
JsonString(s) == SubSeq(s, FirstBrace(s), LastBrace(s))

\* The progress the status route reports for a record: job.progress || 0.
ProgressOf(rec) == IF "progress" \in DOMAIN rec THEN rec.progress ELSE 0

(* ------------------------- the jobs directory -------------------------- *)

\* The number of calls (createJob, updateJob, deleteJob, listJobs, status
\* requests) that are followed on the directory.
MaxStoreCalls == 4

\* The job ids used on the directory; DirOrder is the order in which readdir
\* lists their files.
StoreIds == {"a", "b"}

DirOrder == <<"a", "b">>

NoCall == [idle |-> TRUE]

\* A file that writeJson has opened (and so truncated) and not yet filled;
\* prev is what it held before.
Torn(prev) == [torn |-> TRUE, prev |-> prev]

IsTorn(content) == "torn" \in DOMAIN content

\* The file holds a whole JSON record.
IsRecord(content) == "id" \in DOMAIN content

\* fs.pathExists(jobPath).
PathExists(jobId) == files[jobId] # NoJob

\* getJob's readJson: the record, or null when readJson raises (file gone, or
\* text that is not JSON).
ReadJobFile(jobId) == IF IsRecord(files[jobId]) THEN files[jobId] ELSE NoJob

\* The last record of jobId that was written completely.
LastPersisted(jobId) ==
    IF IsTorn(files[jobId]) THEN files[jobId].prev ELSE files[jobId]

\* createJob's record with its creation time.
NewJobAt(jobId, jobData, now) == [NewJob(jobId, jobData) EXCEPT !.createdAt = now]

\* The jobData and the updates used in the calls on the directory.
StoreData == [type |-> "analyze", status |-> "extracting"]

StoreUpdates == AnalyzeUpdates[2]

\* An estimate that is not rounded up.
CeilPerCentFloor(x) == x \div 100

\* Math.ceil(x / 100) for x >= 0.
CeilPerCent(x) == (x + 99) \div 100

\* baseEstimates[job.type] || 5 * 60.
BaseTime(t) ==
    CASE t = "generate" -> 8 * 60
      [] t = "analyze" -> 5 * 60
      [] t = "modernize" -> 10 * 60
      [] OTHER -> 5 * 60

\* calculateEstimatedTime(job).
CalculateEstimatedTime(job) ==
    IF job.status \in {"completed", "failed", "cancelled"} THEN 0
    ELSE CeilPerCent(BaseTime(job.type) * (100 - ProgressOf(job)))

\* A field the response leaves undefined.
Undefined == "undefined"

\* job[f], undefined when the record has no such field.
FieldOf(job, f) == IF f \in DOMAIN job THEN job[f] ELSE Undefined

\* A status route that answers a missing job with an empty job.
StatusResponseDefault(jobId, job) ==
    [code |-> 200, jobId |-> jobId, status |-> FieldOf(job, "status"),
     progress |-> 0, type |-> FieldOf(job, "type"),
     error |-> FieldOf(job, "error"), result |-> FieldOf(job, "result"),
     estimatedTimeRemaining |-> 0]

\* The response of GET /:jobId for what getJob returned.
StatusResponse(jobId, job) ==
    IF job = NoJob
      THEN [code |-> 404, error |-> "Job not found", jobId |-> jobId]
      ELSE [code |-> 200, jobId |-> jobId, status |-> job.status,
            progress |-> ProgressOf(job), type |-> job.type,
            error |-> FieldOf(job, "error"), result |-> FieldOf(job, "result"),
            estimatedTimeRemaining |-> CalculateEstimatedTime(job)]

\* files.filter(f => f.endsWith('.json')): the job files in readdir order.
JobFiles == SelectSeq(DirOrder, LAMBDA i : files[i] # NoJob)

\* Array.prototype.slice(offset, offset + limit).
Slice(s, offset, limit) ==
    SubSeq(s, offset + 1, IF offset + limit < Len(s) THEN offset + limit ELSE Len(s))

\* A listJobs that leaves the page in directory order.
SortNewestFirstNot(jobs) == jobs

\* jobs.sort((a, b) => new Date(b.createdAt) - new Date(a.createdAt)).
SortNewestFirst(jobs) ==
    LET n == Len(jobs)
        perms == {f \in [1..n -> 1..n] : \A i, k \in 1..n : i # k => f[i] # f[k]}
        order == CHOOSE f \in perms :
                     \A i \in 1..(n - 1) :
                         jobs[f[i]].createdAt >= jobs[f[i + 1]].createdAt
    IN  [i \in 1..n |-> jobs[order[i]]]

\* The value of listJobs(limit, offset); a file that cannot be parsed makes
\* readJson, and so listJobs, raise.
ListResult(limit, offset) ==
    LET names == Slice(JobFiles, offset, limit)
    IN  IF \E i \in 1..Len(names) : ~IsRecord(files[names[i]])
          THEN [ok |-> FALSE]
          ELSE [ok |-> TRUE,
                jobs |-> SortNewestFirst([i \in 1..Len(names) |-> files[names[i]]]),
                total |-> Len(JobFiles), limit |-> limit, offset |-> offset]

\* No generateCode, no component's parseAIResponse and no cleanupOldJobs has
\* been called.
AuxIdle ==
    /\ agent = NoCall
    /\ outs = NoCall
    /\ cleanup = NoCall

\* Nothing has been called on the directory, which is empty.
StoreIdle ==
    /\ files = [i \in StoreIds |-> NoJob]
    /\ clock = 0
    /\ wcall = NoCall
    /\ scall = NoCall
    /\ sjob = NoJob
    /\ reply = NoCall
    /\ ret = NoCall
    /\ page = NoCall
    /\ ncall = 0

(* ------------------------------- Init ---------------------------------- *)

Init ==
    /\ store = [j \in Jobs |-> NoJob]
    /\ jtype = [j \in Jobs |-> "none"]
    /\ pc = [j \in Jobs |-> "idle"]
    /\ stage = [j \in Jobs |-> 0]
    /\ rjob = [j \in Jobs |-> NoJob]
    /\ rerr = [j \in Jobs |-> ""]
    /\ cpc = [j \in Jobs |-> "idle"]
    /\ cjob = [j \in Jobs |-> NoJob]
    /\ ncancel = [j \in Jobs |-> 0]
    /\ ndelete = [j \in Jobs |-> 0]
    /\ nfault = [j \in Jobs |-> 0]
    /\ platforms = [j \in Jobs |-> {}]
    /\ gpc = [j \in Jobs |-> "none"]
    /\ task = [j \in Jobs |-> [p \in Platforms |-> "none"]]
    /\ results = [j \in Jobs |-> NoResults]
    /\ responseText = << >>
    /\ ppc = "done"
    /\ tier = 0
    /\ out = NoValue
    /\ StoreIdle
    /\ AuxIdle

(* ---------------------- POST handlers: create + start ------------------ *)

\* router.post: createJob, then the runner is started (not awaited).
Submit(j, t, ps) ==
    /\ pc[j] = "idle"
    /\ gpc[j] = "none"
    /\ ps = {} <=> t # "generate"
    /\ platforms' = [platforms EXCEPT ![j] = ps]
    /\ UNCHANGED <<gpc, task, results>>
    /\ store' = [store EXCEPT ![j] = NewJob(j, InitialData(t))]
    /\ jtype' = [jtype EXCEPT ![j] = t]
    /\ pc' = [pc EXCEPT ![j] = "upd_read"]
    /\ stage' = [stage EXCEPT ![j] = 1]
    /\ UNCHANGED <<rjob, rerr, cpc, cjob, ncancel, ndelete, nfault>>
    /\ UNCHANGED <<parseVars, storeVars, auxVars>>

(* ------------------------------ runners -------------------------------- *)

\* The try block raised `message`: control enters the catch block, whose
\* updateJob starts with getJob.
Throw(j, message) ==
    /\ pc' = [pc EXCEPT ![j] = "catch_read"]
    /\ rerr' = [rerr EXCEPT ![j] = message]
    /\ rjob' = [rjob EXCEPT ![j] = NoJob]

\* updateJob of the try block, first half: const job = await this.getJob(jobId).
RunnerRead(j) ==
    /\ pc[j] = "upd_read"
    /\ IF GetJob(j) = NoJob
         THEN Throw(j, NotFoundError)
         ELSE /\ rjob' = [rjob EXCEPT ![j] = GetJob(j)]
              /\ pc' = [pc EXCEPT ![j] = "upd_write"]
              /\ rerr' = rerr
    /\ UNCHANGED <<genVars, parseVars, storeVars, auxVars>>
    /\ UNCHANGED <<store, jtype, stage, cpc, cjob, ncancel, ndelete, nfault>>

\* getJob's readJson raises: getJob logs and returns null, updateJob throws.
RunnerReadFault(j) ==
    /\ pc[j] = "upd_read"
    /\ nfault[j] < MaxFaults
    /\ nfault' = [nfault EXCEPT ![j] = @ + 1]
    /\ Throw(j, NotFoundError)
    /\ UNCHANGED <<genVars, parseVars, storeVars, auxVars>>
    /\ UNCHANGED <<store, jtype, stage, cpc, cjob, ncancel, ndelete>>

\* updateJob of the try block, second half: writeJson of the merged record.
\* After the last update the runner returns; otherwise the stage's work starts.
RunnerWrite(j) ==
    /\ pc[j] = "upd_write"
    /\ store' = [store EXCEPT ![j] = MergeJob(rjob[j], StageUpdates(j)[stage[j]])]
    /\ rjob' = [rjob EXCEPT ![j] = NoJob]
    /\ pc' = [pc EXCEPT ![j] =
                IF stage[j] = Len(StageUpdates(j)) THEN "done" ELSE "work"]
    /\ UNCHANGED <<genVars, parseVars, storeVars, auxVars>>
    /\ UNCHANGED <<jtype, stage, rerr, cpc, cjob, ncancel, ndelete, nfault>>

\* writeJson raises: updateJob rethrows into the runner's catch block.
RunnerWriteFault(j) ==
    /\ pc[j] = "upd_write"
    /\ nfault[j] < MaxFaults
    /\ nfault' = [nfault EXCEPT ![j] = @ + 1]
    /\ Throw(j, WriteError)
    /\ UNCHANGED <<genVars, parseVars, storeVars, auxVars>>
    /\ UNCHANGED <<store, jtype, stage, cpc, cjob, ncancel, ndelete>>

\* The stage's collaborator call returns: the next updateJob starts.
RunnerWorkOk(j) ==
    /\ pc[j] = "work"
    /\ StageWork(jtype[j], stage[j]) # "generateMultiPlatformApp"
    /\ pc' = [pc EXCEPT ![j] = "upd_read"]
    /\ stage' = [stage EXCEPT ![j] = @ + 1]
    /\ UNCHANGED <<genVars, parseVars, storeVars, auxVars>>
    /\ UNCHANGED <<store, jtype, rjob, rerr, cpc, cjob, ncancel, ndelete, nfault>>

\* The stage's collaborator call raises.
RunnerWorkThrow(j) ==
    /\ pc[j] = "work"
    /\ StageWork(jtype[j], stage[j]) # "generateMultiPlatformApp"
    /\ CanThrow(StageWork(jtype[j], stage[j]))
    /\ Throw(j, WorkError(StageWork(jtype[j], stage[j])))
    /\ UNCHANGED <<genVars, parseVars, storeVars, auxVars>>
    /\ UNCHANGED <<store, jtype, stage, cpc, cjob, ncancel, ndelete, nfault>>

\* catch block, updateJob first half.  A missing record makes updateJob throw
\* inside the catch block: the async function rejects and nothing is written.
RunnerCatchRead(j) ==
    /\ pc[j] = "catch_read"
    /\ IF GetJob(j) = NoJob
         THEN /\ pc' = [pc EXCEPT ![j] = "crashed"]
              /\ rjob' = rjob
         ELSE /\ rjob' = [rjob EXCEPT ![j] = GetJob(j)]
              /\ pc' = [pc EXCEPT ![j] = "catch_write"]
    /\ UNCHANGED <<genVars, parseVars, storeVars, auxVars>>
    /\ UNCHANGED <<store, jtype, stage, rerr, cpc, cjob, ncancel, ndelete, nfault>>

\* catch block, updateJob second half: the failed record is written.
RunnerCatchWrite(j) ==
    /\ pc[j] = "catch_write"
    /\ store' = [store EXCEPT ![j] = MergeJob(rjob[j], FailedUpdate(rerr[j]))]
    /\ rjob' = [rjob EXCEPT ![j] = NoJob]
    /\ pc' = [pc EXCEPT ![j] = "done"]
    /\ UNCHANGED <<genVars, parseVars, storeVars, auxVars>>
    /\ UNCHANGED <<jtype, stage, rerr, cpc, cjob, ncancel, ndelete, nfault>>

\* catch block, updateJob raising on a filesystem fault (read or write).
RunnerCatchFault(j) ==
    /\ pc[j] \in {"catch_read", "catch_write"}
    /\ nfault[j] < MaxFaults
    /\ nfault' = [nfault EXCEPT ![j] = @ + 1]
    /\ pc' = [pc EXCEPT ![j] = "crashed"]
    /\ rjob' = [rjob EXCEPT ![j] = NoJob]
    /\ UNCHANGED <<genVars, parseVars, storeVars, auxVars>>
    /\ UNCHANGED <<store, jtype, stage, rerr, cpc, cjob, ncancel, ndelete>>

(* --------------------------- cancel handler ---------------------------- *)

\* router.delete: getJob; 404 when missing, 400 when completed or failed,
\* otherwise updateJob is called.
CancelCheck(j) ==
    /\ cpc[j] = "idle"
    /\ pc[j] # "idle"
    /\ ncancel[j] < MaxCancels
    /\ ncancel' = [ncancel EXCEPT ![j] = @ + 1]
    /\ cpc' = [cpc EXCEPT ![j] =
                 IF GetJob(j) = NoJob THEN "idle"
                 ELSE IF GetJob(j).status \in {"completed", "failed"} THEN "idle"
                 ELSE "upd_read"]
    /\ UNCHANGED <<genVars, parseVars, storeVars, auxVars>>
    /\ UNCHANGED <<store, jtype, pc, stage, rjob, rerr, cjob, ndelete, nfault>>

\* The handler's updateJob, first half; a missing record ends in a 500.
CancelRead(j) ==
    /\ cpc[j] = "upd_read"
    /\ IF GetJob(j) = NoJob
         THEN /\ cpc' = [cpc EXCEPT ![j] = "idle"]
              /\ cjob' = cjob
         ELSE /\ cpc' = [cpc EXCEPT ![j] = "upd_write"]
              /\ cjob' = [cjob EXCEPT ![j] = GetJob(j)]
    /\ UNCHANGED <<genVars, parseVars, storeVars, auxVars>>
    /\ UNCHANGED <<store, jtype, pc, stage, rjob, rerr, ncancel, ndelete, nfault>>

\* The handler's updateJob, second half: the cancelled record is written.
CancelWrite(j) ==
    /\ cpc[j] = "upd_write"
    /\ store' = [store EXCEPT ![j] = MergeJob(cjob[j], CancelUpdate)]
    /\ cjob' = [cjob EXCEPT ![j] = NoJob]
    /\ cpc' = [cpc EXCEPT ![j] = "idle"]
    /\ UNCHANGED <<genVars, parseVars, storeVars, auxVars>>
    /\ UNCHANGED <<jtype, pc, stage, rjob, rerr, ncancel, ndelete, nfault>>

(* ------------------------------ deleteJob ------------------------------ *)

\* A deleteJob that empties the whole jobs directory.
DeleteJobEveryRecord(j) ==
    /\ pc[j] # "idle"
    /\ ndelete[j] < MaxDeletes
    /\ ndelete' = [ndelete EXCEPT ![j] = @ + 1]
    /\ store' = [k \in DOMAIN store |-> NoJob]
    /\ UNCHANGED <<genVars, parseVars, storeVars, auxVars>>
    /\ UNCHANGED <<jtype, pc, stage, rjob, rerr, cpc, cjob, ncancel, nfault>>

\* deleteJob: fs.remove of the job file (no error when it is already gone).
DeleteJob(j) ==
    /\ pc[j] # "idle"
    /\ ndelete[j] < MaxDeletes
    /\ ndelete' = [ndelete EXCEPT ![j] = @ + 1]
    /\ store' = [store EXCEPT ![j] = NoJob]
    /\ UNCHANGED <<genVars, parseVars, storeVars, auxVars>>
    /\ UNCHANGED <<jtype, pc, stage, rjob, rerr, cpc, cjob, ncancel, nfault>>

(* ------------------- generateMultiPlatformApp -------------------------- *)

\* if (this.agents[platform]): a property lookup, own or inherited.
AgentTruthy(p) == p \in Registered \cup Inherited

\* Whether this.agents[platform].generateCode is a function.
HasGenerateCode(p) == p \in Registered

\* The entry a callback writes for a platform whose agent returned its code.
SuccessEntry == [success |-> TRUE]

\* The entry a callback writes for a platform with no agent.
UnsupportedEntry == [success |-> FALSE, error |-> "Platform not supported"]

\* A callback that returns without recording its platform.
PutResultNothing(res, p, entry) == res

\* results[platform] = entry.
PutResult(res, p, entry) ==
    [q \in (DOMAIN res) \cup {p} |-> IF q = p THEN entry ELSE res[q]]

\* Promise.all over the callbacks in states ts: "rejected" as soon as one has
\* rejected, "fulfilled" once all have fulfilled, "pending" otherwise.
PromiseAll(ps, ts) ==
    IF \E p \in ps : ts[p] = "rejected" THEN "rejected"
    ELSE IF \A p \in ps : ts[p] = "fulfilled" THEN "fulfilled"
    ELSE "pending"

\* generateMultiPlatformApp throws (its catch logs and rethrows): a runner
\* awaiting it enters its own catch block.
GenRaise(j) ==
    /\ gpc' = [gpc EXCEPT ![j] = "raised"]
    /\ IF pc[j] = "work"
         THEN Throw(j, WorkError("generateMultiPlatformApp"))
         ELSE UNCHANGED <<pc, rerr, rjob>>
    /\ UNCHANGED stage

\* The join of the callbacks in states ts, at the await of Promise.all: a
\* rejection is thrown on, fulfilment calls generateDocumentation.
GenJoin(j, ts) ==
    IF gpc[j] = "join" /\ PromiseAll(platforms[j], ts) = "rejected"
      THEN GenRaise(j)
    ELSE IF gpc[j] = "join" /\ PromiseAll(platforms[j], ts) = "fulfilled"
      THEN /\ gpc' = [gpc EXCEPT ![j] = "doc"]
           /\ UNCHANGED <<pc, rerr, rjob, stage>>
    ELSE UNCHANGED <<gpc, pc, rerr, rjob, stage>>

\* generateAppAsync reaches `await codeGenerator.generateMultiPlatformApp(...)`:
\* the call runs up to its first await, fs.ensureDir(outputDir).
RunnerGenerate(j) ==
    /\ pc[j] = "work"
    /\ StageWork(jtype[j], stage[j]) = "generateMultiPlatformApp"
    /\ gpc[j] = "none"
    /\ gpc' = [gpc EXCEPT ![j] = "ensure"]
    /\ UNCHANGED <<platforms, task, results>>
    /\ UNCHANGED <<pipeVars, parseVars, storeVars, auxVars>>

\* generateMultiPlatformApp called by another caller than a runner, with any
\* list of platform identifiers.
DirectCall(j, ps) ==
    /\ pc[j] = "idle"
    /\ gpc[j] = "none"
    /\ gpc' = [gpc EXCEPT ![j] = "ensure"]
    /\ platforms' = [platforms EXCEPT ![j] = ps]
    /\ UNCHANGED <<task, results>>
    /\ UNCHANGED <<pipeVars, parseVars, storeVars, auxVars>>

\* ensureDir(outputDir) returned: platforms.map runs every callback up to its
\* first await.  A platform with a falsy agent gets its entry at once; the
\* others wait for ensureDir(platformDir).  Then Promise.all is awaited.
GenMap(j) ==
    /\ gpc[j] = "ensure"
    /\ task' = [task EXCEPT ![j] =
                 [p \in Platforms |->
                    IF p \notin platforms[j] THEN "none"
                    ELSE IF AgentTruthy(p) THEN "dir"
                    ELSE "fulfilled"]]
    /\ results' = [results EXCEPT ![j] =
                 [p \in {q \in platforms[j] : ~AgentTruthy(q)} |-> UnsupportedEntry]]
    /\ gpc' = [gpc EXCEPT ![j] =
                 IF \A p \in platforms[j] : ~AgentTruthy(p) THEN "doc" ELSE "join"]
    /\ UNCHANGED platforms
    /\ UNCHANGED <<pipeVars, parseVars, storeVars, auxVars>>

\* ensureDir(outputDir) raised.
GenEnsureFail(j) ==
    /\ gpc[j] = "ensure"
    /\ GenRaise(j)
    /\ UNCHANGED <<platforms, task, results>>
    /\ UNCHANGED <<store, jtype, cpc, cjob, ncancel, ndelete, nfault, parseVars, storeVars, auxVars>>

\* A callback's promise rejects; the join sees it in the same turn.
TaskReject(j, p) ==
    /\ task' = [task EXCEPT ![j][p] = "rejected"]
    /\ GenJoin(j, task'[j])
    /\ UNCHANGED <<platforms, results>>
    /\ UNCHANGED <<store, jtype, cpc, cjob, ncancel, ndelete, nfault, parseVars, storeVars, auxVars>>

\* ensureDir(platformDir) returned: agent.generateCode is called and runs up to
\* its model call.  An inherited property is no agent: the call is a TypeError.
TaskDirOk(j, p) ==
    /\ task[j][p] = "dir"
    /\ IF HasGenerateCode(p)
         THEN /\ task' = [task EXCEPT ![j][p] = "model"]
              /\ UNCHANGED <<platforms, results, gpc>>
              /\ UNCHANGED <<pipeVars, parseVars, storeVars, auxVars>>
         ELSE TaskReject(j, p)

\* ensureDir(platformDir) raised.
TaskDirFail(j, p) ==
    /\ task[j][p] = "dir"
    /\ TaskReject(j, p)

\* The model call returned and parseAIResponse recovered the file map: the
\* files are being written.
TaskModelOk(j, p) ==
    /\ task[j][p] = "model"
    /\ task' = [task EXCEPT ![j][p] = "write"]
    /\ UNCHANGED <<platforms, results, gpc>>
    /\ UNCHANGED <<pipeVars, parseVars, storeVars, auxVars>>

\* The model call raised, or parseAIResponse could not recover a value.
TaskModelFail(j, p) ==
    /\ task[j][p] = "model"
    /\ TaskReject(j, p)

\* Every file was written: generateCode returns, the callback records the
\* platform's success and its promise fulfils.
TaskWriteOk(j, p) ==
    /\ task[j][p] = "write"
    /\ task' = [task EXCEPT ![j][p] = "fulfilled"]
    /\ results' = [results EXCEPT ![j] = PutResult(@, p, SuccessEntry)]
    /\ GenJoin(j, task'[j])
    /\ UNCHANGED platforms
    /\ UNCHANGED <<store, jtype, cpc, cjob, ncancel, ndelete, nfault, parseVars, storeVars, auxVars>>

\* A file write raised.
TaskWriteFail(j, p) ==
    /\ task[j][p] = "write"
    /\ TaskReject(j, p)

\* generateDocumentation returned: generateMultiPlatformApp returns its value,
\* and a runner awaiting it goes on to its next updateJob.
GenReturn(j) ==
    /\ gpc[j] = "doc"
    /\ gpc' = [gpc EXCEPT ![j] = "returned"]
    /\ IF pc[j] = "work"
         THEN /\ pc' = [pc EXCEPT ![j] = "upd_read"]
              /\ stage' = [stage EXCEPT ![j] = @ + 1]
         ELSE UNCHANGED <<pc, stage>>
    /\ UNCHANGED <<platforms, task, results>>
    /\ UNCHANGED <<store, jtype, rjob, rerr, cpc, cjob, ncancel, ndelete, nfault>>
    /\ UNCHANGED <<parseVars, storeVars, auxVars>>

\* generateDocumentation raised (a field of planningData missing, or the
\* README write failing).
GenDocFail(j) ==
    /\ gpc[j] = "doc"
    /\ GenRaise(j)
    /\ UNCHANGED <<platforms, task, results>>
    /\ UNCHANGED <<store, jtype, cpc, cjob, ncancel, ndelete, nfault, parseVars, storeVars, auxVars>>

(* ------------------------------- Next ---------------------------------- *)

\* The steps of generateMultiPlatformApp and of its callbacks.
GenNext(j) ==
    \/ GenMap(j)
    \/ GenEnsureFail(j)
    \/ GenReturn(j)
    \/ GenDocFail(j)
    \/ \E p \in Platforms :
        \/ TaskDirOk(j, p)
        \/ TaskDirFail(j, p)
        \/ TaskModelOk(j, p)
        \/ TaskModelFail(j, p)
        \/ TaskWriteOk(j, p)
        \/ TaskWriteFail(j, p)

Next ==
    \E j \in Jobs :
        \/ \E t \in JobTypes, ps \in SUBSET Validated : Submit(j, t, ps)
        \/ RunnerRead(j)
        \/ RunnerReadFault(j)
        \/ RunnerWrite(j)
        \/ RunnerWriteFault(j)
        \/ RunnerWorkOk(j)
        \/ RunnerWorkThrow(j)
        \/ RunnerGenerate(j)
        \/ RunnerCatchRead(j)
        \/ RunnerCatchWrite(j)
        \/ RunnerCatchFault(j)
        \/ CancelCheck(j)
        \/ CancelRead(j)
        \/ CancelWrite(j)
        \/ DeleteJob(j)
        \/ GenNext(j)

\* The whole service: jobs submitted over the POST handlers.
Spec == Init /\ [][Next]_vars

NextGen ==
    \E j \in Jobs :
        \/ \E ps \in SUBSET Platforms : DirectCall(j, ps)
        \/ GenNext(j)

\* generateMultiPlatformApp alone, called with any platform list.
SpecGen == Init /\ [][NextGen]_vars

NextRun ==
    \E j \in Jobs :
        \/ \E t \in JobTypes, ps \in SUBSET Validated : Submit(j, t, ps)
        \/ RunnerRead(j)
        \/ RunnerWrite(j)
        \/ RunnerWorkOk(j)
        \/ RunnerWorkThrow(j)
        \/ RunnerGenerate(j)
        \/ RunnerCatchRead(j)
        \/ RunnerCatchWrite(j)
        \/ GenNext(j)

\* One job run by its runner with no other request on its record: no cancel
\* request, no deleteJob, and a job file that can always be read and written.
SpecRun == Init /\ [][NextRun]_vars

(* ------------------------------ two jobs ------------------------------- *)

\* Two job ids, as uuidv4 hands them to two requests.
JobPair == {"J1", "J2"}

\* The service before any request, with two job ids to come.
InitPair ==
    /\ store = [j \in JobPair |-> NoJob]
    /\ jtype = [j \in JobPair |-> "none"]
    /\ pc = [j \in JobPair |-> "idle"]
    /\ stage = [j \in JobPair |-> 0]
    /\ rjob = [j \in JobPair |-> NoJob]
    /\ rerr = [j \in JobPair |-> ""]
    /\ cpc = [j \in JobPair |-> "idle"]
    /\ cjob = [j \in JobPair |-> NoJob]
    /\ ncancel = [j \in JobPair |-> 0]
    /\ ndelete = [j \in JobPair |-> 0]
    /\ nfault = [j \in JobPair |-> 0]
    /\ platforms = [j \in JobPair |-> {}]
    /\ gpc = [j \in JobPair |-> "none"]
    /\ task = [j \in JobPair |-> [p \in Platforms |-> "none"]]
    /\ results = [j \in JobPair |-> NoResults]
    /\ responseText = << >>
    /\ ppc = "done"
    /\ tier = 0
    /\ out = NoValue
    /\ StoreIdle
    /\ AuxIdle

\* The steps of job j's runner and of its generation call.
RunStep(j) ==
    \/ RunnerRead(j)
    \/ RunnerWrite(j)
    \/ RunnerWorkOk(j)
    \/ RunnerWorkThrow(j)
    \/ RunnerGenerate(j)
    \/ RunnerCatchRead(j)
    \/ RunnerCatchWrite(j)
    \/ GenNext(j)

\* Every operation performed for job j: its createJob, the steps of its
\* pipeline, its deleteJob.  A generate job asks for one platform.
PairStep(j) ==
    \/ \E t \in JobTypes, ps \in SUBSET {"ios"} : Submit(j, t, ps)
    \/ RunStep(j)
    \/ DeleteJob(j)

NextPair == \E j \in JobPair : PairStep(j)

\* Two jobs submitted and run in any interleaving, either record being
\* deleted at any time.
SpecPair == InitPair /\ [][NextPair]_vars

(* ----------------------- parseAIResponse: the call --------------------- *)

\* parseAIResponse is called with some response text.
InitParse ==
    /\ store = [j \in Jobs |-> NoJob]
    /\ jtype = [j \in Jobs |-> "none"]
    /\ pc = [j \in Jobs |-> "idle"]
    /\ stage = [j \in Jobs |-> 0]
    /\ rjob = [j \in Jobs |-> NoJob]
    /\ rerr = [j \in Jobs |-> ""]
    /\ cpc = [j \in Jobs |-> "idle"]
    /\ cjob = [j \in Jobs |-> NoJob]
    /\ ncancel = [j \in Jobs |-> 0]
    /\ ndelete = [j \in Jobs |-> 0]
    /\ nfault = [j \in Jobs |-> 0]
    /\ platforms = [j \in Jobs |-> {}]
    /\ gpc = [j \in Jobs |-> "none"]
    /\ task = [j \in Jobs |-> [p \in Platforms |-> "none"]]
    /\ results = [j \in Jobs |-> NoResults]
    /\ responseText \in Texts
    /\ ppc = "direct"
    /\ tier = 0
    /\ out = NoValue
    /\ StoreIdle
    /\ AuxIdle

\* Tier 1: return JSON.parse(responseText); a SyntaxError enters the outer
\* catch block.
ParseDirect ==
    /\ ppc = "direct"
    /\ IF JSONParse(responseText).ok
         THEN /\ out' = Returned(JSONParse(responseText).value)
              /\ ppc' = "done"
              /\ tier' = 1
         ELSE /\ ppc' = "fence"
              /\ UNCHANGED <<out, tier>>
    /\ UNCHANGED responseText
    /\ UNCHANGED <<pipeVars, genVars, storeVars, auxVars>>

\* A parseAIResponse without its fence tier: after the direct parse it goes
\* on to the braces.
ParseFenceSkipped ==
    /\ ppc = "fence"
    /\ ppc' = "brace"
    /\ UNCHANGED <<out, tier, responseText>>
    /\ UNCHANGED <<pipeVars, genVars, storeVars, auxVars>>

\* A parseAIResponse that tries the braces before the fenced block.
ParseFenceBraceFirst ==
    /\ ppc = "fence"
    /\ IF HasBraceSlice(responseText) /\ JSONParse(JsonString(responseText)).ok
         THEN /\ out' = Returned(JSONParse(JsonString(responseText)).value)
              /\ ppc' = "done"
              /\ tier' = 3
         ELSE /\ out' = IF JSONParse(JsonMatch(responseText)).ok
                          THEN Returned(JSONParse(JsonMatch(responseText)).value)
                          ELSE Raised
              /\ ppc' = "done"
              /\ tier' = 2
    /\ UNCHANGED responseText
    /\ UNCHANGED <<pipeVars, genVars, storeVars, auxVars>>

\* Tier 2: with a non-empty capture, return JSON.parse(jsonMatch[1].trim());
\* a SyntaxError there is caught by the inner catch block, which raises.
\* Without a capture the code goes on to the braces.
ParseFence ==
    /\ ppc = "fence"
    /\ IF JsonMatch(responseText) # << >>
         THEN /\ out' = IF JSONParse(Trim(JsonMatch(responseText))).ok
                          THEN Returned(JSONParse(Trim(JsonMatch(responseText))).value)
                          ELSE Raised
              /\ ppc' = "done"
              /\ tier' = 2
         ELSE /\ ppc' = "brace"
              /\ UNCHANGED <<out, tier>>
    /\ UNCHANGED responseText
    /\ UNCHANGED <<pipeVars, genVars, storeVars, auxVars>>

\* A parseAIResponse without its brace tier: it raises after the fence tier.
ParseBraceMissing ==
    /\ ppc = "brace"
    /\ out' = Raised
    /\ ppc' = "done"
    /\ tier' = 3
    /\ UNCHANGED responseText
    /\ UNCHANGED <<pipeVars, genVars, storeVars, auxVars>>

\* Tier 3: return JSON.parse(jsonString) when the braces are there; otherwise,
\* or on a SyntaxError, the inner catch block raises.
ParseBrace ==
    /\ ppc = "brace"
    /\ out' = IF HasBraceSlice(responseText) /\ JSONParse(JsonString(responseText)).ok
                THEN Returned(JSONParse(JsonString(responseText)).value)
                ELSE Raised
    /\ ppc' = "done"
    /\ tier' = 3
    /\ UNCHANGED responseText
    /\ UNCHANGED <<pipeVars, genVars, storeVars, auxVars>>

NextParse ==
    \/ ParseDirect
    \/ ParseFence
    \/ ParseBrace

\* One call of parseAIResponse on any text of at most MaxTextLen tokens.
SpecParse == InitParse /\ [][NextParse]_vars

(* ----------------- parseAIResponse: the seven copies ------------------- *)

\* The components that carry a parseAIResponse method of their own.
Components == {"PlanningEngine", "IOSAgent", "AndroidAgent", "WebAgent",
               "BackendAgent", "CodeModernizer", "AICTOMonitor"}

\* A parseAIResponse without the fenced-block tier.
ParseWithoutFence(text) ==
    IF JSONParse(text).ok
      THEN Returned(JSONParse(text).value)
    ELSE IF HasBraceSlice(text) /\ JSONParse(JsonString(text)).ok
      THEN Returned(JSONParse(JsonString(text)).value)
    ELSE Raised

\* PlanningEngine.parseAIResponse(responseText): the outcome of the call.
PlanningEngineParse(text) ==
    IF JSONParse(text).ok
      THEN Returned(JSONParse(text).value)
    ELSE IF JsonMatch(text) # << >>
      THEN IF JSONParse(Trim(JsonMatch(text))).ok
             THEN Returned(JSONParse(Trim(JsonMatch(text))).value)
             ELSE Raised
    ELSE IF HasBraceSlice(text) /\ JSONParse(JsonString(text)).ok
      THEN Returned(JSONParse(JsonString(text)).value)
    ELSE Raised

\* IOSAgent.parseAIResponse(responseText): the outcome of the call.
IOSAgentParse(text) ==
    IF JSONParse(text).ok
      THEN Returned(JSONParse(text).value)
    ELSE IF JsonMatch(text) # << >>
      THEN IF JSONParse(Trim(JsonMatch(text))).ok
             THEN Returned(JSONParse(Trim(JsonMatch(text))).value)
             ELSE Raised
    ELSE IF HasBraceSlice(text) /\ JSONParse(JsonString(text)).ok
      THEN Returned(JSONParse(JsonString(text)).value)
    ELSE Raised

\* AndroidAgent.parseAIResponse(responseText): the outcome of the call.
AndroidAgentParse(text) ==
    IF JSONParse(text).ok
      THEN Returned(JSONParse(text).value)
    ELSE IF JsonMatch(text) # << >>
      THEN IF JSONParse(Trim(JsonMatch(text))).ok
             THEN Returned(JSONParse(Trim(JsonMatch(text))).value)
             ELSE Raised
    ELSE IF HasBraceSlice(text) /\ JSONParse(JsonString(text)).ok
      THEN Returned(JSONParse(JsonString(text)).value)
    ELSE Raised

\* WebAgent.parseAIResponse(responseText): the outcome of the call.
WebAgentParse(text) ==
    IF JSONParse(text).ok
      THEN Returned(JSONParse(text).value)
    ELSE IF JsonMatch(text) # << >>
      THEN IF JSONParse(Trim(JsonMatch(text))).ok
             THEN Returned(JSONParse(Trim(JsonMatch(text))).value)
             ELSE Raised
    ELSE IF HasBraceSlice(text) /\ JSONParse(JsonString(text)).ok
      THEN Returned(JSONParse(JsonString(text)).value)
    ELSE Raised

\* BackendAgent.parseAIResponse(responseText): the outcome of the call.
BackendAgentParse(text) ==
    IF JSONParse(text).ok
      THEN Returned(JSONParse(text).value)
    ELSE IF JsonMatch(text) # << >>
      THEN IF JSONParse(Trim(JsonMatch(text))).ok
             THEN Returned(JSONParse(Trim(JsonMatch(text))).value)
             ELSE Raised
    ELSE IF HasBraceSlice(text) /\ JSONParse(JsonString(text)).ok
      THEN Returned(JSONParse(JsonString(text)).value)
    ELSE Raised

\* CodeModernizer.parseAIResponse(responseText): the outcome of the call.
CodeModernizerParse(text) ==
    IF JSONParse(text).ok
      THEN Returned(JSONParse(text).value)
    ELSE IF JsonMatch(text) # << >>
      THEN IF JSONParse(Trim(JsonMatch(text))).ok
             THEN Returned(JSONParse(Trim(JsonMatch(text))).value)
             ELSE Raised
    ELSE IF HasBraceSlice(text) /\ JSONParse(JsonString(text)).ok
      THEN Returned(JSONParse(JsonString(text)).value)
    ELSE Raised

\* AICTOMonitor.parseAIResponse(responseText): the outcome of the call.
AICTOMonitorParse(text) ==
    IF JSONParse(text).ok
      THEN Returned(JSONParse(text).value)
    ELSE IF JsonMatch(text) # << >>
      THEN IF JSONParse(Trim(JsonMatch(text))).ok
             THEN Returned(JSONParse(Trim(JsonMatch(text))).value)
             ELSE Raised
    ELSE IF HasBraceSlice(text) /\ JSONParse(JsonString(text)).ok
      THEN Returned(JSONParse(JsonString(text)).value)
    ELSE Raised

\* The outcome of component c's parseAIResponse on text.
ParseOf(c, text) ==
    CASE c = "PlanningEngine" -> PlanningEngineParse(text)
      [] c = "IOSAgent" -> IOSAgentParse(text)
      [] c = "AndroidAgent" -> AndroidAgentParse(text)
      [] c = "WebAgent" -> WebAgentParse(text)
      [] c = "BackendAgent" -> BackendAgentParse(text)
      [] c = "CodeModernizer" -> CodeModernizerParse(text)
      [] c = "AICTOMonitor" -> AICTOMonitorParse(text)

\* Every component's parseAIResponse is called on responseText.
ParseEverywhere ==
    /\ outs = NoCall
    /\ outs' = [c \in Components |-> ParseOf(c, responseText)]
    /\ UNCHANGED <<agent, cleanup>>
    /\ UNCHANGED <<pipeVars, genVars, parseVars, storeVars>>

NextCopies == ParseEverywhere

\* The seven parseAIResponse methods called on any text of at most
\* MaxTextLen tokens.
SpecCopies == InitParse /\ [][NextCopies]_vars

(* -------------------- calls on the jobs directory ---------------------- *)

\* createJob(jobId, jobData) is called: the record is built and writeJson is
\* called.  `before` remembers what the file held when the call was made.
CreateJobCall(jobId) ==
    /\ wcall = NoCall
    /\ ncall < MaxStoreCalls
    /\ ncall' = ncall + 1
    /\ clock' = clock + 1
    /\ wcall' = [op |-> "create", id |-> jobId, phase |-> "write",
                 job |-> NewJobAt(jobId, StoreData, clock + 1),
                 before |-> files[jobId]]
    /\ UNCHANGED <<files, scall, sjob, reply, ret, page>>
    /\ UNCHANGED <<pipeVars, genVars, parseVars, auxVars>>

\* updateJob(jobId, updates) is called: getJob starts with fs.pathExists.
UpdateJobCall(jobId) ==
    /\ wcall = NoCall
    /\ ncall < MaxStoreCalls
    /\ ncall' = ncall + 1
    /\ wcall' = [op |-> "update", id |-> jobId, phase |-> "exists",
                 job |-> NoJob, before |-> files[jobId]]
    /\ UNCHANGED <<files, clock, scall, sjob, reply, ret, page>>
    /\ UNCHANGED <<pipeVars, genVars, parseVars, auxVars>>

\* updateJob raises `Job ... not found`; its catch block logs and rethrows.
UpdateJobThrow ==
    /\ ret' = [ok |-> FALSE, op |-> wcall.op, id |-> wcall.id, error |-> NotFoundError]
    /\ wcall' = NoCall

\* An updateJob that goes on to write when the file is missing.
UpdateJobExistsUpsert ==
    /\ wcall # NoCall
    /\ wcall.phase = "exists"
    /\ wcall' = [wcall EXCEPT !.phase = "write",
                              !.job = MergeJob([id |-> wcall.id], StoreUpdates)]
    /\ UNCHANGED ret
    /\ UNCHANGED <<files, clock, scall, sjob, reply, page, ncall>>
    /\ UNCHANGED <<pipeVars, genVars, parseVars, auxVars>>

\* getJob inside updateJob: fs.pathExists answers; a missing file makes getJob
\* return null and updateJob raise.
UpdateJobExists ==
    /\ wcall # NoCall
    /\ wcall.phase = "exists"
    /\ IF PathExists(wcall.id)
         THEN /\ wcall' = [wcall EXCEPT !.phase = "read"]
              /\ UNCHANGED ret
         ELSE UpdateJobThrow
    /\ UNCHANGED <<files, clock, scall, sjob, reply, page, ncall>>
    /\ UNCHANGED <<pipeVars, genVars, parseVars, auxVars>>

\* getJob inside updateJob: fs.readJson answers; the merged record is built
\* and writeJson is called.
UpdateJobRead ==
    /\ wcall # NoCall
    /\ wcall.phase = "read"
    /\ IF ReadJobFile(wcall.id) # NoJob
         THEN /\ wcall' = [wcall EXCEPT !.phase = "write",
                                        !.job = MergeJob(ReadJobFile(wcall.id),
                                                         StoreUpdates)]
              /\ UNCHANGED ret
         ELSE UpdateJobThrow
    /\ UNCHANGED <<files, clock, scall, sjob, reply, page, ncall>>
    /\ UNCHANGED <<pipeVars, genVars, parseVars, auxVars>>

\* writeJson opens the file for writing, which truncates it.
WriteOpen ==
    /\ wcall # NoCall
    /\ wcall.phase = "write"
    /\ files' = [files EXCEPT ![wcall.id] = Torn(files[wcall.id])]
    /\ wcall' = [wcall EXCEPT !.phase = "writing"]
    /\ UNCHANGED <<clock, scall, sjob, reply, ret, page, ncall>>
    /\ UNCHANGED <<pipeVars, genVars, parseVars, auxVars>>

\* writeJson has written the whole text: createJob or updateJob returns the
\* record.  A file removed in the meantime stays removed.
WriteClose ==
    /\ wcall # NoCall
    /\ wcall.phase = "writing"
    /\ files' = [files EXCEPT ![wcall.id] = IF IsTorn(@) THEN wcall.job ELSE @]
    /\ ret' = [ok |-> TRUE, op |-> wcall.op, id |-> wcall.id, job |-> wcall.job]
    /\ wcall' = NoCall
    /\ UNCHANGED <<clock, scall, sjob, reply, page, ncall>>
    /\ UNCHANGED <<pipeVars, genVars, parseVars, auxVars>>

\* deleteJob(jobId): fs.remove, with nothing else awaited.
DeleteJobFile(jobId) ==
    /\ ncall < MaxStoreCalls
    /\ ncall' = ncall + 1
    /\ files' = [files EXCEPT ![jobId] = NoJob]
    /\ UNCHANGED <<clock, wcall, scall, sjob, reply, ret, page>>
    /\ UNCHANGED <<pipeVars, genVars, parseVars, auxVars>>

\* GET /:jobId arrives: getJob starts with fs.pathExists.
StatusCall(jobId) ==
    /\ scall = NoCall
    /\ ncall < MaxStoreCalls
    /\ ncall' = ncall + 1
    /\ scall' = [id |-> jobId, phase |-> "exists"]
    /\ UNCHANGED <<files, clock, wcall, sjob, reply, ret, page>>
    /\ UNCHANGED <<pipeVars, genVars, parseVars, auxVars>>

\* getJob inside the status route: fs.pathExists answers.
StatusExists ==
    /\ scall # NoCall
    /\ scall.phase = "exists"
    /\ IF PathExists(scall.id)
         THEN /\ scall' = [scall EXCEPT !.phase = "read"]
              /\ UNCHANGED sjob
         ELSE /\ scall' = [scall EXCEPT !.phase = "respond"]
              /\ sjob' = NoJob
    /\ UNCHANGED <<files, clock, wcall, reply, ret, page, ncall>>
    /\ UNCHANGED <<pipeVars, genVars, parseVars, auxVars>>

\* getJob inside the status route: fs.readJson answers, or raises and getJob
\* returns null.
StatusRead ==
    /\ scall # NoCall
    /\ scall.phase = "read"
    /\ sjob' = ReadJobFile(scall.id)
    /\ scall' = [scall EXCEPT !.phase = "respond"]
    /\ UNCHANGED <<files, clock, wcall, reply, ret, page, ncall>>
    /\ UNCHANGED <<pipeVars, genVars, parseVars, auxVars>>

\* The status route answers: 404 for null, the job's fields otherwise.
StatusRespond ==
    /\ scall # NoCall
    /\ scall.phase = "respond"
    /\ reply' = StatusResponse(scall.id, sjob)
    /\ scall' = NoCall
    /\ UNCHANGED <<files, clock, wcall, sjob, ret, page, ncall>>
    /\ UNCHANGED <<pipeVars, genVars, parseVars, auxVars>>

\* listJobs(limit, offset), run without another call in between.
ListJobs(limit, offset) ==
    /\ ncall < MaxStoreCalls
    /\ ncall' = ncall + 1
    /\ page' = ListResult(limit, offset)
    /\ UNCHANGED <<files, clock, wcall, scall, sjob, reply, ret>>
    /\ UNCHANGED <<pipeVars, genVars, parseVars, auxVars>>

NextStore ==
    \/ \E jobId \in StoreIds :
        \/ CreateJobCall(jobId)
        \/ UpdateJobCall(jobId)
        \/ DeleteJobFile(jobId)
        \/ StatusCall(jobId)
    \/ UpdateJobExists
    \/ UpdateJobRead
    \/ WriteOpen
    \/ WriteClose
    \/ StatusExists
    \/ StatusRead
    \/ StatusRespond
    \/ \E limit \in 1..2, offset \in 0..1 : ListJobs(limit, offset)

\* JobManager and the status route called in any order on a directory of up
\* to two job files.
SpecStore == Init /\ [][NextStore]_vars

\* The status route about to answer for any job record getJob can return.
InitEstimate ==
    /\ store = [j \in Jobs |-> NoJob]
    /\ jtype = [j \in Jobs |-> "none"]
    /\ pc = [j \in Jobs |-> "idle"]
    /\ stage = [j \in Jobs |-> 0]
    /\ rjob = [j \in Jobs |-> NoJob]
    /\ rerr = [j \in Jobs |-> ""]
    /\ cpc = [j \in Jobs |-> "idle"]
    /\ cjob = [j \in Jobs |-> NoJob]
    /\ ncancel = [j \in Jobs |-> 0]
    /\ ndelete = [j \in Jobs |-> 0]
    /\ nfault = [j \in Jobs |-> 0]
    /\ platforms = [j \in Jobs |-> {}]
    /\ gpc = [j \in Jobs |-> "none"]
    /\ task = [j \in Jobs |-> [p \in Platforms |-> "none"]]
    /\ results = [j \in Jobs |-> NoResults]
    /\ responseText = << >>
    /\ ppc = "done"
    /\ tier = 0
    /\ out = NoValue
    /\ files = [i \in StoreIds |-> NoJob]
    /\ clock = 0
    /\ wcall = NoCall
    /\ scall = [id |-> "a", phase |-> "respond"]
    /\ \E t \in JobTypes, progress \in 0..100,
          st \in {"planning", "extracting", "analyzing", "generating",
                  "generating_recommendations", "modernizing", "packaging",
                  "completed", "failed", "cancelled"} :
          sjob \in {NewJob("a", [type |-> t, status |-> st]),
                    NewJob("a", [type |-> t, status |-> st, progress |-> progress])}
    /\ reply = NoCall
    /\ ret = NoCall
    /\ page = NoCall
    /\ ncall = 0
    /\ AuxIdle

NextEstimate == StatusRespond

\* The answer of the status route for one job record.
SpecEstimate == InitEstimate /\ [][NextEstimate]_vars

(* ------------------- a platform agent's generateCode ------------------- *)

\* The longest `files` object of a parsed model response.
MaxFiles == 2

\* The file paths a response can name; they stand for the keys of
\* codeStructure.files.
FilePaths == {"App.swift", "ContentView.swift", "Models/Item.swift", "README.md"}

\* Object.entries(codeStructure.files): the keys in insertion order, no key
\* twice.
FileEntries ==
    {e \in UNION {[1..n -> FilePaths] : n \in 0..MaxFiles} :
        \A a, b \in 1..Len(e) : a # b => e[a] # e[b]}

\* files.push(filePath).
Pushed(list, filePath) == Append(list, filePath)

\* generateCode's return value.
CodeResult(list) == [files |-> list, structure |-> TRUE]

\* generateCode(planningData, outputDir) is called and awaits the model.
AgentGenerateCode ==
    /\ agent = NoCall
    /\ agent' = [pc |-> "model", entries |-> << >>, i |-> 0, files |-> << >>,
                 written |-> << >>, failed |-> FALSE, out |-> NoValue]
    /\ UNCHANGED <<outs, cleanup>>
    /\ UNCHANGED <<pipeVars, genVars, parseVars, storeVars>>

\* The model call or parseAIResponse raises: generateCode raises.
AgentModelFail ==
    /\ agent # NoCall
    /\ agent.pc = "model"
    /\ agent' = [agent EXCEPT !.pc = "raised", !.out = Raised]
    /\ UNCHANGED <<outs, cleanup>>
    /\ UNCHANGED <<pipeVars, genVars, parseVars, storeVars>>

\* parseAIResponse returns codeStructure.  Without a `files` object
\* Object.entries raises a TypeError; with an empty one the loop is skipped
\* and generateCode returns; otherwise the loop starts with the first entry.
AgentModelOk(hasFiles, entries) ==
    /\ agent # NoCall
    /\ agent.pc = "model"
    /\ agent' = IF ~hasFiles
                  THEN [agent EXCEPT !.pc = "raised",
                                     !.out = [ok |-> FALSE, error |-> "TypeError"]]
                ELSE IF entries = << >>
                  THEN [agent EXCEPT !.pc = "returned", !.out = CodeResult(<< >>)]
                ELSE [agent EXCEPT !.pc = "ensure", !.entries = entries, !.i = 1]
    /\ UNCHANGED <<outs, cleanup>>
    /\ UNCHANGED <<pipeVars, genVars, parseVars, storeVars>>

\* await fs.ensureDir(path.dirname(fullPath)) returns.
AgentEnsureDirOk ==
    /\ agent # NoCall
    /\ agent.pc = "ensure"
    /\ agent' = [agent EXCEPT !.pc = "write"]
    /\ UNCHANGED <<outs, cleanup>>
    /\ UNCHANGED <<pipeVars, genVars, parseVars, storeVars>>

\* await fs.ensureDir raises: generateCode raises.
AgentEnsureDirFail ==
    /\ agent # NoCall
    /\ agent.pc = "ensure"
    /\ agent' = [agent EXCEPT !.pc = "raised",
                              !.out = [ok |-> FALSE, error |-> "ensureDir failed"]]
    /\ UNCHANGED <<outs, cleanup>>
    /\ UNCHANGED <<pipeVars, genVars, parseVars, storeVars>>

\* await fs.writeFile(fullPath, content) returns: the path is pushed, and the
\* loop goes on to the next entry or, after the last one, generateCode returns.
AgentWriteFileOk ==
    /\ agent # NoCall
    /\ agent.pc = "write"
    /\ LET filePath == agent.entries[agent.i]
           list == Pushed(agent.files, filePath)
       IN  agent' = IF agent.i < Len(agent.entries)
                      THEN [agent EXCEPT !.written = Append(@, filePath),
                                         !.files = list,
                                         !.i = @ + 1,
                                         !.pc = "ensure"]
                      ELSE [agent EXCEPT !.written = Append(@, filePath),
                                         !.files = list,
                                         !.pc = "returned",
                                         !.out = CodeResult(list)]
    /\ UNCHANGED <<outs, cleanup>>
    /\ UNCHANGED <<pipeVars, genVars, parseVars, storeVars>>

\* A generateCode that ignores a failed write: the path is pushed all the same
\* and the loop goes on.
AgentWriteFileFailIgnored ==
    /\ agent # NoCall
    /\ agent.pc = "write"
    /\ LET filePath == agent.entries[agent.i]
           list == Pushed(agent.files, filePath)
       IN  agent' = IF agent.i < Len(agent.entries)
                      THEN [agent EXCEPT !.failed = TRUE, !.files = list,
                                         !.i = @ + 1, !.pc = "ensure"]
                      ELSE [agent EXCEPT !.failed = TRUE, !.files = list,
                                         !.pc = "returned", !.out = CodeResult(list)]
    /\ UNCHANGED <<outs, cleanup>>
    /\ UNCHANGED <<pipeVars, genVars, parseVars, storeVars>>

\* await fs.writeFile raises: nothing is pushed and generateCode raises.
AgentWriteFileFail ==
    /\ agent # NoCall
    /\ agent.pc = "write"
    /\ agent' = [agent EXCEPT !.failed = TRUE,
                              !.pc = "raised",
                              !.out = [ok |-> FALSE, error |-> "writeFile failed"]]
    /\ UNCHANGED <<outs, cleanup>>
    /\ UNCHANGED <<pipeVars, genVars, parseVars, storeVars>>

NextAgent ==
    \/ AgentGenerateCode
    \/ AgentModelFail
    \/ \E hasFiles \in BOOLEAN, entries \in FileEntries : AgentModelOk(hasFiles, entries)
    \/ AgentEnsureDirOk
    \/ AgentEnsureDirFail
    \/ AgentWriteFileOk
    \/ AgentWriteFileFail

\* One generateCode call of a platform agent, for any `files` object of at
\* most MaxFiles entries and any failure of the model or the filesystem.
SpecAgent == Init /\ [][NextAgent]_vars

(* --------------------------- cleanupOldJobs ---------------------------- *)

\* The oldest a job record is when cleanupOldJobs is called, and the largest
\* maxAge it is called with.
MaxJobAge == 2

\* The statuses of the records in the directory when cleanupOldJobs is called.
CleanupStatuses == {"extracting", "analyzing", "completed", "failed", "cancelled"}

\* A job record created at time t that has reached status st.
AgedJob(jobId, t, st) == [NewJobAt(jobId, StoreData, t) EXCEPT !.status = st]

\* A cleanupOldJobs that removes every old record, whatever its status.
ExpiredAnyStatus(job, now, maxAge) == now - job.createdAt > maxAge

\* jobAge > maxAge && (job.status === 'completed' || job.status === 'failed').
Expired(job, now, maxAge) ==
    /\ now - job.createdAt > maxAge
    /\ job.status \in {"completed", "failed"}

\* The loop goes on to the next file or, after the last one, cleanupOldJobs
\* returns `cleaned`.
CleanupAdvance(c, cleaned) ==
    IF c.k < Len(c.names)
      THEN [c EXCEPT !.k = @ + 1, !.pc = "read", !.cleaned = cleaned]
      ELSE [c EXCEPT !.pc = "returned", !.cleaned = cleaned,
                     !.out = [ok |-> TRUE, cleaned |-> cleaned]]

\* The catch block logs and rethrows.
CleanupRaise(c) == [c EXCEPT !.pc = "raised", !.out = [ok |-> FALSE]]

\* cleanupOldJobs(maxAge) is called: readdir lists the files, `now` is taken;
\* `before` remembers the directory as it was.  With no file the call returns 0.
CleanupOldJobs(maxAge) ==
    /\ cleanup = NoCall
    /\ LET c == [pc |-> "read", names |-> JobFiles, k |-> 1, now |-> clock,
                 maxAge |-> maxAge, cleaned |-> 0, job |-> NoJob,
                 before |-> files, out |-> NoValue]
       IN  cleanup' = IF JobFiles = << >>
                        THEN [c EXCEPT !.pc = "returned",
                                       !.out = [ok |-> TRUE, cleaned |-> 0]]
                        ELSE c
    /\ UNCHANGED <<agent, outs>>
    /\ UNCHANGED <<pipeVars, genVars, parseVars, storeVars>>

\* await fs.readJson(jobPath) returns the record; an expired one is to be
\* removed, any other is passed over.
CleanupRead ==
    /\ cleanup # NoCall
    /\ cleanup.pc = "read"
    /\ LET job == files[cleanup.names[cleanup.k]]
       IN  cleanup' = IF ~IsRecord(job)
                        THEN CleanupRaise(cleanup)
                      ELSE IF Expired(job, cleanup.now, cleanup.maxAge)
                        THEN [cleanup EXCEPT !.job = job, !.pc = "remove"]
                      ELSE CleanupAdvance([cleanup EXCEPT !.job = job], cleanup.cleaned)
    /\ UNCHANGED <<agent, outs>>
    /\ UNCHANGED <<pipeVars, genVars, parseVars, storeVars>>

\* await fs.readJson(jobPath) raises.
CleanupReadFail ==
    /\ cleanup # NoCall
    /\ cleanup.pc = "read"
    /\ cleanup' = CleanupRaise(cleanup)
    /\ UNCHANGED <<agent, outs>>
    /\ UNCHANGED <<pipeVars, genVars, parseVars, storeVars>>

\* await fs.remove(jobPath) returns: the record is gone.
CleanupRemove ==
    /\ cleanup # NoCall
    /\ cleanup.pc = "remove"
    /\ files' = [files EXCEPT ![cleanup.names[cleanup.k]] = NoJob]
    /\ cleanup' = [cleanup EXCEPT !.pc = "zip"]
    /\ UNCHANGED <<agent, outs>>
    /\ UNCHANGED <<clock, wcall, scall, sjob, reply, ret, page, ncall>>
    /\ UNCHANGED <<pipeVars, genVars, parseVars>>

\* await fs.remove(jobPath) raises: the record stays.
CleanupRemoveFail ==
    /\ cleanup # NoCall
    /\ cleanup.pc = "remove"
    /\ cleanup' = CleanupRaise(cleanup)
    /\ UNCHANGED <<agent, outs>>
    /\ UNCHANGED <<pipeVars, genVars, parseVars, storeVars>>

\* The generated archive is looked up and, when there, removed; cleaned++.
CleanupZipOk ==
    /\ cleanup # NoCall
    /\ cleanup.pc = "zip"
    /\ cleanup' = CleanupAdvance(cleanup, cleanup.cleaned + 1)
    /\ UNCHANGED <<agent, outs>>
    /\ UNCHANGED <<pipeVars, genVars, parseVars, storeVars>>

\* Removing the generated archive raises: cleanupOldJobs raises after the
\* record was removed.
CleanupZipFail ==
    /\ cleanup # NoCall
    /\ cleanup.pc = "zip"
    /\ cleanup' = CleanupRaise(cleanup)
    /\ UNCHANGED <<agent, outs>>
    /\ UNCHANGED <<pipeVars, genVars, parseVars, storeVars>>

\* A directory of records of any status and any age up to MaxJobAge.
InitCleanup ==
    /\ store = [j \in Jobs |-> NoJob]
    /\ jtype = [j \in Jobs |-> "none"]
    /\ pc = [j \in Jobs |-> "idle"]
    /\ stage = [j \in Jobs |-> 0]
    /\ rjob = [j \in Jobs |-> NoJob]
    /\ rerr = [j \in Jobs |-> ""]
    /\ cpc = [j \in Jobs |-> "idle"]
    /\ cjob = [j \in Jobs |-> NoJob]
    /\ ncancel = [j \in Jobs |-> 0]
    /\ ndelete = [j \in Jobs |-> 0]
    /\ nfault = [j \in Jobs |-> 0]
    /\ platforms = [j \in Jobs |-> {}]
    /\ gpc = [j \in Jobs |-> "none"]
    /\ task = [j \in Jobs |-> [p \in Platforms |-> "none"]]
    /\ results = [j \in Jobs |-> NoResults]
    /\ responseText = << >>
    /\ ppc = "done"
    /\ tier = 0
    /\ out = NoValue
    /\ files \in {f \in [StoreIds -> {NoJob} \cup
                            {AgedJob(i, t, st) : i \in StoreIds, t \in 0..MaxJobAge,
                                                 st \in CleanupStatuses}] :
                   \A i \in StoreIds : f[i] # NoJob => f[i].id = i}
    /\ clock = MaxJobAge
    /\ wcall = NoCall
    /\ scall = NoCall
    /\ sjob = NoJob
    /\ reply = NoCall
    /\ ret = NoCall
    /\ page = NoCall
    /\ ncall = 0
    /\ AuxIdle

NextCleanup ==
    \/ \E maxAge \in 0..MaxJobAge : CleanupOldJobs(maxAge)
    \/ CleanupRead
    \/ CleanupReadFail
    \/ CleanupRemove
    \/ CleanupRemoveFail
    \/ CleanupZipOk
    \/ CleanupZipFail

\* One cleanupOldJobs call on a directory nothing else is writing to.
SpecCleanup == InitCleanup /\ [][NextCleanup]_vars

(* ------------------------------ properties ----------------------------- *)

\* Whether job j has a record in the store.
HasJob(j) == store[j] # NoJob

\* The persisted status of job j is s.
StatusIs(j, s) == HasJob(j) /\ store[j].status = s

\* The job's record has field f.
HasField(j, f) == HasJob(j) /\ f \in DOMAIN store[j]

\* A platform callback that has started and has not settled.
InFlight(j, p) == task[j][p] \in {"dir", "model", "write"}

\* C1 (as claimed): once the persisted status of a job is completed, failed or
\* cancelled, no later step of its runner and no cancel request changes it.
C1_TerminalAbsorbing ==
    [][\A j \in Jobs :
          (HasJob(j) /\ store[j].status \in Terminal /\ store'[j] # NoJob)
              => store'[j].status = store[j].status]_vars

\* C2 (as claimed): a runner that stands at a stage boundary (about to issue the
\* stage's updateJob) while the persisted status is cancelled goes no further:
\* it starts no stage and writes nothing.
C2_CancelHonoured ==
    [][\A j \in Jobs :
          (pc[j] = "upd_read" /\ StatusIs(j, "cancelled"))
              => (pc'[j] \in {"upd_read", "done"} /\ store'[j] = store[j])]_vars

\* C3 (as claimed): no lost update.  Every write of updateJob stores the merge
\* of its updates into the record stored at that moment, so a record written
\* by an overlapping updateJob is never dropped.
C3_NoLostUpdate ==
    [][\A j \in Jobs :
          (HasJob(j) /\ store'[j] # NoJob /\ store'[j] # store[j])
              => \/ (pc[j] = "upd_write" /\ pc'[j] # pc[j]
                     /\ store'[j] = MergeJob(store[j], StageUpdates(j)[stage[j]]))
                 \/ (pc[j] = "catch_write" /\ pc'[j] # pc[j]
                     /\ store'[j] = MergeJob(store[j], FailedUpdate(rerr[j])))
                 \/ (cpc[j] = "upd_write" /\ cpc'[j] # cpc[j]
                     /\ store'[j] = MergeJob(store[j], CancelUpdate))]_vars

\* C4 (as claimed): the persisted progress never decreases from one persisted
\* record of a job to the next, and always lies in 0..100.
C4_ProgressMonotonic ==
    [][\A j \in Jobs :
          (HasJob(j) /\ store'[j] # NoJob)
              => /\ ProgressOf(store'[j]) >= ProgressOf(store[j])
                 /\ ProgressOf(store'[j]) \in 0..100]_vars

\* C5 (as claimed): when a stage raises, the runner persists status failed with
\* the error's message: whenever a runner leaves its catch block, the record
\* it leaves behind is the failed record carrying the caught message.
C5_FailurePersisted ==
    [][\A j \in Jobs :
          (pc[j] \in {"catch_read", "catch_write"}
           /\ pc'[j] \notin {"catch_read", "catch_write"})
              => (store'[j] # NoJob /\ store'[j].status = "failed"
                  /\ "error" \in DOMAIN store'[j] /\ store'[j].error = rerr[j])]_vars

\* C6 (as claimed): with one requested platform succeeding and another one
\* raising, generateMultiPlatformApp does not raise and the runner does not
\* enter its failure path because of it.
C6_PlatformFailureAbsorbed ==
    \A j \in Jobs :
        (\E a, b \in platforms[j] :
            task[j][a] = "fulfilled" /\ task[j][b] = "rejected")
        => (gpc[j] # "raised" /\ rerr[j] # WorkError("generateMultiPlatformApp"))

\* C7 (as claimed): all-complete join.  generateMultiPlatformApp has neither
\* returned nor raised while a requested platform's generator is in flight.
C7_AllCompleteJoin ==
    \A j \in Jobs :
        gpc[j] \in {"returned", "raised"}
            => \A p \in platforms[j] : ~InFlight(j, p)

\* C8 (as claimed): the outcome of a call whose platform callbacks were started
\* has exactly one entry for each requested platform.
C8_OneEntryPerPlatform ==
    \A j \in Jobs :
        (gpc[j] = "returned"
         \/ (gpc[j] = "raised" /\ \E p \in platforms[j] : task[j][p] # "none"))
            => DOMAIN results[j] = platforms[j]

\* C9 (as claimed): once the callbacks have been started, a requested platform
\* with no registered generator has a success:false entry with an error
\* message, and its callback never rejects.
C9_UnsupportedPlatformEntry ==
    \A j \in Jobs : \A p \in platforms[j] \ Registered :
        gpc[j] \in {"join", "doc", "returned", "raised"} /\ task[j][p] # "none"
            => /\ p \in DOMAIN results[j]
               /\ results[j][p].success = FALSE
               /\ "error" \in DOMAIN results[j][p]
               /\ task[j][p] = "fulfilled"

\* C10 (as claimed): a job whose persisted status is terminal has exactly one
\* of the fields result and error.
C10_ExactlyOneOfResultError ==
    \A j \in Jobs :
        (HasJob(j) /\ store[j].status \in Terminal)
            => (HasField(j, "result") # HasField(j, "error"))

\* C10 (amended): a job whose persisted status is completed or failed has
\* exactly one of the fields result and error; a cancelled job may have neither.
C10_CompletedOrFailedExactlyOne ==
    \A j \in Jobs :
        (HasJob(j) /\ store[j].status \in {"completed", "failed"})
            => (HasField(j, "result") # HasField(j, "error"))

\* C10 witness: a runner's catch block has persisted a failed record, which
\* carries the error and no result.
C10_Witness ==
    \E j \in Jobs :
        StatusIs(j, "failed") /\ HasField(j, "error") /\ ~HasField(j, "result")

\* C11 (as claimed): in every reachable state a job record has a result field
\* only if its persisted status is completed.
C11_ResultOnlyIfCompleted ==
    \A j \in Jobs : HasField(j, "result") => StatusIs(j, "completed")

\* C12 (as claimed): in every reachable state a job record has an error field
\* only if its persisted status is failed.
C12_ErrorOnlyIfFailed ==
    \A j \in Jobs : HasField(j, "error") => StatusIs(j, "failed")

\* The runner of job j caught the error raised by its analyzing stage.
AnalyzingRaised(j) ==
    /\ pc[j] \in {"catch_read", "catch_write", "done"}
    /\ rerr[j] = WorkError("analyzeExistingCode")
    /\ StageUpdates(j)[stage[j]].status = "analyzing"

C14_StatusInSpecEnumeration ==
    \A j \in Jobs :
        HasJob(j) =>
            store[j].status \in {"created", "extracting", "analyzing", "generating",
                                 "modernizing", "packaging", "completed", "failed",
                                 "cancelled"}

\* C14 (amended): in every reachable state the persisted status of every job is
\* one of planning, extracting, analyzing, generating,
\* generating_recommendations, modernizing, packaging, completed, failed,
\* cancelled.
C14_StatusInCodeEnumeration ==
    \A j \in Jobs :
        HasJob(j) =>
            store[j].status \in {"planning", "extracting", "analyzing", "generating",
                                 "generating_recommendations", "modernizing",
                                 "packaging", "completed", "failed", "cancelled"}

\* C14 witness: an analyze job at work in its third stage, stored with the
\* status generating_recommendations.
C14_Witness ==
    \E j \in Jobs : StatusIs(j, "generating_recommendations") /\ pc[j] = "work"

\* C15 (as claimed): each change of a job's persisted status goes to a later
\* stage in the order extracting, analyzing (planning), generating or
\* modernizing (generating_recommendations), packaging, completed, or to failed
\* or cancelled; the status never returns to an earlier stage.
C15_StatusOnlyForward ==
    [][LET Rank(s) ==
               CASE s = "extracting" -> 1
                 [] s \in {"analyzing", "planning"} -> 2
                 [] s \in {"generating", "modernizing", "generating_recommendations"} -> 3
                 [] s = "packaging" -> 4
                 [] s = "completed" -> 5
                 [] OTHER -> 6
       IN  \A j \in Jobs :
               (HasJob(j) /\ store'[j] # NoJob /\ store'[j].status # store[j].status)
                   => \/ store'[j].status \in {"failed", "cancelled"}
                      \/ Rank(store'[j].status) > Rank(store[j].status)]_vars

\* C16: the work of a stage begins only in the step in which the writeJson of
\* that stage's updateJob completes, so the stage's status is stored when the
\* work begins; and it begins only when the work of the previous stage is
\* over: the runner was in no other work and no platform callback of the
\* generation is still running.
C16_StatusPersistedBeforeWork ==
    [][\A j \in Jobs :
          (pc'[j] = "work" /\ pc[j] # "work")
              => /\ pc[j] = "upd_write"
                 /\ stage'[j] = stage[j]
                 /\ store'[j] # NoJob
                 /\ store'[j].status = StageUpdates(j)[stage[j]].status
                 /\ gpc[j] \in {"none", "returned"}
                 /\ \A p \in Platforms : ~InFlight(j, p)]_vars

\* C16 witness: a generate job whose packaging work is under way, after the
\* generation of two platforms has returned.
C16_Witness ==
    \E j \in Jobs :
        /\ pc[j] = "work"
        /\ StageWork(jtype[j], stage[j]) = "packageGeneratedCode"
        /\ gpc[j] = "returned"
        /\ platforms[j] = {"ios", "web"}
        /\ StatusIs(j, "packaging")

\* The runner of job j has met no error so far.
ErrorFree(j) ==
    /\ pc[j] \in {"upd_read", "upd_write", "work", "done"}
    /\ rerr[j] = ""

\* The number of updateJob calls the runner of job j has completed.
UpdatesDone(j) == IF pc[j] \in {"upd_read", "upd_write"} THEN stage[j] - 1 ELSE stage[j]

\* C17 (as claimed): a job that meets no stage error and no cancel request has
\* at every moment one of the persisted statuses created, extracting,
\* analyzing, generating, packaging, completed and one of the progress values
\* 0, 10, 30, 70, 100, and ends with status completed and progress 100.
C17_ClaimedPath ==
    \A j \in Jobs :
        ErrorFree(j) =>
            /\ HasJob(j)
            /\ store[j].status \in {"created", "extracting", "analyzing", "generating",
                                    "packaging", "completed"}
            /\ ProgressOf(store[j]) \in {0, 10, 30, 70, 100}
            /\ pc[j] = "done" =>
                  (store[j].status = "completed" /\ ProgressOf(store[j]) = 100)

\* C17 (amended): a job that meets no stage error and no cancel request holds,
\* after each of its runner's updates, the next pair of status and progress
\* of its type's path, and ends with status completed and progress 100.  The
\* paths, from creation on: analyze - extracting 0, extracting 10, analyzing
\* 30, generating_recommendations 70, completed 100; generate - planning 0,
\* planning 0, generating 25, packaging 80, completed 100; modernize -
\* extracting 0, extracting 10, analyzing 25, modernizing 50, packaging 85,
\* completed 100.
C17_PathByType ==
    LET Path(t) ==
            IF t = "analyze" THEN
                << <<"extracting", 0>>, <<"extracting", 10>>, <<"analyzing", 30>>,
                   <<"generating_recommendations", 70>>, <<"completed", 100>> >>
            ELSE IF t = "generate" THEN
                << <<"planning", 0>>, <<"planning", 0>>, <<"generating", 25>>,
                   <<"packaging", 80>>, <<"completed", 100>> >>
            ELSE
                << <<"extracting", 0>>, <<"extracting", 10>>, <<"analyzing", 25>>,
                   <<"modernizing", 50>>, <<"packaging", 85>>, <<"completed", 100>> >>
    IN  \A j \in Jobs :
            ErrorFree(j) =>
                /\ HasJob(j)
                /\ UpdatesDone(j) + 1 \in DOMAIN Path(jtype[j])
                /\ <<store[j].status, ProgressOf(store[j])>>
                       = Path(jtype[j])[UpdatesDone(j) + 1]
                /\ pc[j] = "done" => UpdatesDone(j) + 1 = Len(Path(jtype[j]))

\* C17 witness: an analyze job that ran to its end without an error, stored as
\* completed with progress 100.
C17_Witness ==
    \E j \in Jobs :
        /\ ErrorFree(j)
        /\ pc[j] = "done"
        /\ jtype[j] = "analyze"
        /\ StatusIs(j, "completed")
        /\ ProgressOf(store[j]) = 100

\* C18: when the record of a generate job says completed, the number of
\* platforms its result reports with success: true equals the number of
\* requested platforms whose agent's generateCode returned, all files written.
C18_GeneratedCountMatches ==
    \A j \in Jobs :
        (StatusIs(j, "completed") /\ jtype[j] = "generate") =>
            LET reported == store[j].result.results
            IN  Cardinality({p \in DOMAIN reported : reported[p].success})
                  = Cardinality({p \in platforms[j] :
                                    HasGenerateCode(p) /\ task[j][p] = "fulfilled"})

\* C18 witness: a completed generate job for ios and web whose result reports
\* both platforms as generated.
C18_Witness ==
    \E j \in Jobs :
        /\ StatusIs(j, "completed")
        /\ jtype[j] = "generate"
        /\ platforms[j] = {"ios", "web"}
        /\ DOMAIN store[j].result.results = {"ios", "web"}
        /\ \A p \in platforms[j] : store[j].result.results[p].success

\* C19 (as claimed): parseAIResponse raises only when all three tiers fail;
\* whenever the whole text does not parse but the substring from the first
\* "{" to the last "}" does, the call returns a value, also when the text has a
\* fenced block whose interior does not parse.
C19_RaisesOnlyIfAllTiersFail ==
    (ppc = "done" /\ out = Raised) =>
        /\ ~JSONParse(responseText).ok
        /\ ~JSONParse(JsonMatch(responseText)).ok
        /\ ~(HasBraceSlice(responseText) /\ JSONParse(JsonString(responseText)).ok)

\* C20: for every text that is valid JSON as a whole, parseAIResponse returns
\* at tier 1 exactly the value of JSON.parse(responseText), whatever fence
\* markers or braces the text holds.
C20_ValidTextParsedDirectly ==
    (ppc = "done" /\ JSONParse(responseText).ok) =>
        /\ tier = 1
        /\ out = [ok |-> TRUE, value |-> JSONParse(responseText).value]

\* C20 witness: the text "{ }" padded with blanks, valid as a whole and holding
\* braces, returned at tier 1.
C20_Witness ==
    /\ ppc = "done"
    /\ responseText = <<"w", "{", "w", "}", "w">>
    /\ tier = 1
    /\ out = [ok |-> TRUE, value |-> [kind |-> "object"]]

\* C21: for every text that does not parse as a whole and whose first fenced
\* block (between the first two fence markers, an opening json tag set aside)
\* holds valid JSON, parseAIResponse returns at tier 2 the parsed value of
\* that interior, whatever prose surrounds the block.
C21_FencedBlockParsed ==
    (/\ ppc = "done"
     /\ ~JSONParse(responseText).ok
     /\ JSONParse(JsonMatch(responseText)).ok)
        => /\ tier = 2
           /\ out = [ok |-> TRUE, value |-> JSONParse(JsonMatch(responseText)).value]

\* C21 witness: prose, then a block tagged json holding a number, returned at
\* tier 2.
C21_Witness ==
    /\ ppc = "done"
    /\ responseText = <<"p", "F", "j", "1", "F">>
    /\ tier = 2
    /\ out = [ok |-> TRUE, value |-> [kind |-> "number", digits |-> 1]]

\* The brace-delimited values of a text: the pairs of an opening and a closing
\* brace with only blanks between them.
C22_BraceValues ==
    {ab \in (1..Len(responseText)) \X (1..Len(responseText)) :
        /\ ab[1] < ab[2]
        /\ responseText[ab[1]] = "{"
        /\ responseText[ab[2]] = "}"
        /\ \A i \in (ab[1] + 1)..(ab[2] - 1) : responseText[i] = "w"}

\* A text with prose before and/or after exactly one well-formed
\* brace-delimited value, and with no fenced block.
C22_ProseAroundOneValue ==
    /\ Cardinality(Positions(responseText, "F")) < 2
    /\ Cardinality(C22_BraceValues) = 1
    /\ \E ab \in C22_BraceValues :
          \E i \in 1..Len(responseText) :
              (i < ab[1] \/ i > ab[2]) /\ responseText[i] # "w"

\* C22 (as claimed): for every text with leading and/or trailing prose, no
\* fenced block and exactly one well-formed brace-delimited value,
\* parseAIResponse returns that value at tier 3.
C22_ProseThenBraces ==
    (ppc = "done" /\ C22_ProseAroundOneValue)
        => (tier = 3 /\ out = [ok |-> TRUE, value |-> [kind |-> "object"]])

\* C22 (amended): the same, for the texts whose prose has no "{" before the
\* value and no "}" after it, so that the substring from the first "{" to the
\* last "}" is the value.
C22_BraceFreeProseThenBraces ==
    (/\ ppc = "done"
     /\ C22_ProseAroundOneValue
     /\ <<FirstBrace(responseText), LastBrace(responseText)>> \in C22_BraceValues)
        => (tier = 3 /\ out = [ok |-> TRUE, value |-> [kind |-> "object"]])

\* C22 witness: prose on both sides of "{ }", returned at tier 3.
C22_Witness ==
    /\ ppc = "done"
    /\ responseText = <<"p", "{", "w", "}", "p">>
    /\ tier = 3
    /\ out = [ok |-> TRUE, value |-> [kind |-> "object"]]

\* C23: for every text from which no tier recovers a value (the whole text,
\* the fenced interior and the brace substring all fail to parse),
\* parseAIResponse raises its error and returns no value.
C23_NothingRecoverableRaises ==
    (/\ ppc = "done"
     /\ ~JSONParse(responseText).ok
     /\ ~JSONParse(JsonMatch(responseText)).ok
     /\ ~(HasBraceSlice(responseText) /\ JSONParse(JsonString(responseText)).ok))
        => (out = [ok |-> FALSE, error |-> "Could not process AI response"]
            /\ "value" \notin DOMAIN out)

\* C23 witness: a text of prose with an unclosed brace, raised after the
\* brace tier.
C23_Witness ==
    /\ ppc = "done"
    /\ responseText = <<"p", "{", "p">>
    /\ tier = 3
    /\ out = Raised

\* C24: the fence tier is entered only from a failed direct parse and the
\* brace tier only from the fence tier; and when the whole text does not parse
\* while the fenced interior and the brace substring both parse, to different
\* values, the call returns the fenced block's value.
C24_TierPrecedence ==
    [][/\ ppc' = "fence" => (ppc \in {"direct", "fence"} /\ ~JSONParse(responseText).ok)
       /\ ppc' = "brace" => ppc \in {"fence", "brace"}
       /\ (/\ ppc' = "done"
           /\ ~JSONParse(responseText).ok
           /\ JSONParse(JsonMatch(responseText)).ok
           /\ HasBraceSlice(responseText)
           /\ JSONParse(JsonString(responseText)).ok
           /\ JSONParse(JsonString(responseText)).value
                 # JSONParse(JsonMatch(responseText)).value)
            => (/\ ppc = "fence"
                /\ tier' = 2
                /\ out' = [ok |-> TRUE,
                           value |-> JSONParse(JsonMatch(responseText)).value])]_vars

\* C24 witness: a fenced number followed by an empty object; the number is
\* returned.
C24_Witness ==
    /\ ppc = "done"
    /\ responseText = <<"F", "1", "F", "{", "}">>
    /\ tier = 2
    /\ out = [ok |-> TRUE, value |-> [kind |-> "number", digits |-> 1]]

\* C25 (as claimed): a createJob call made for an id whose record exists
\* changes nothing in that job's file and ends with an error.
C25_DuplicateCreateRejected ==
    [][(/\ wcall # NoCall
        /\ wcall' # wcall
        /\ wcall.op = "create"
        /\ IsRecord(wcall.before))
           => /\ files'[wcall.id] = wcall.before
              /\ wcall' = NoCall => ~ret'.ok]_vars

\* C26: an updateJob call made for an id that has no file ends at once with
\* the not-found error and leaves every file as it was.
C26_UpdateMissingFails ==
    [][(/\ wcall # NoCall
        /\ wcall' # wcall
        /\ wcall.op = "update"
        /\ wcall.before = NoJob)
           => /\ wcall' = NoCall
              /\ ret' = [ok |-> FALSE, op |-> "update", id |-> wcall.id,
                         error |-> "Job not found"]
              /\ files' = files]_vars

\* C26 witness: updateJob of a missing job has raised and the directory holds
\* no file for it.
C26_Witness ==
    /\ wcall = NoCall
    /\ ret = [ok |-> FALSE, op |-> "update", id |-> "a", error |-> "Job not found"]
    /\ files["a"] = NoJob

\* C27: no step of a status request writes a file; a request that finds no
\* file for its id gets null from getJob, and a request whose getJob returned
\* null is answered 404 'Job not found', not with a job.
C27_StatusMissingNotFound ==
    [][(scall # NoCall /\ scall' # scall)
           => /\ files' = files
              /\ (scall.phase = "exists" /\ files[scall.id] = NoJob)
                    => (sjob' = NoJob /\ scall' = [scall EXCEPT !.phase = "respond"])
              /\ (scall.phase = "respond" /\ sjob = NoJob)
                    => reply' = [code |-> 404, error |-> "Job not found",
                                 jobId |-> scall.id]]_vars

\* C27 witness: a status request for an id without a file was answered 404.
C27_Witness ==
    /\ scall = NoCall
    /\ reply = [code |-> 404, error |-> "Job not found", jobId |-> "b"]
    /\ files["b"] = NoJob
    /\ files["a"] # NoJob

\* C28 (as claimed): a status request that reads the file of a job with a
\* persisted record, with no other call or an updateJob in progress, gets the
\* last fully persisted record.
C28_StatusReadsLastPersisted ==
    [][(/\ scall # NoCall
        /\ scall' # scall
        /\ scall.phase = "read"
        /\ (wcall = NoCall \/ wcall.op = "update")
        /\ IsRecord(LastPersisted(scall.id)))
           => sjob' = LastPersisted(scall.id)]_vars

\* C29 (as claimed): the estimatedTimeRemaining of a status response equals
\* base * (100 - progress) / 100, with base 480 for generate, 300 for analyze
\* and 600 for modernize, in every status.
C29_EstimateLinear ==
    (scall = NoCall /\ reply # NoCall /\ reply.code = 200) =>
        LET base == CASE reply.type = "generate" -> 480
                      [] reply.type = "analyze" -> 300
                      [] OTHER -> 600
        IN  reply.estimatedTimeRemaining * 100 = base * (100 - reply.progress)

\* C29 (amended): the estimatedTimeRemaining is 0 when the status is
\* completed, failed or cancelled, and otherwise base * (100 - progress) / 100
\* rounded up to a whole number of seconds.
C29_EstimateCeilOrZero ==
    (scall = NoCall /\ reply # NoCall /\ reply.code = 200) =>
        LET base == CASE reply.type = "generate" -> 480
                      [] reply.type = "analyze" -> 300
                      [] OTHER -> 600
            exact100 == base * (100 - reply.progress)
            eta == reply.estimatedTimeRemaining
        IN  IF reply.status \in {"completed", "failed", "cancelled"}
              THEN eta = 0
              ELSE eta * 100 >= exact100 /\ (eta - 1) * 100 < exact100

\* C29 witness: a generate job at progress 1 is answered 476, the 475.2
\* seconds of the formula rounded up.
C29_Witness ==
    /\ scall = NoCall
    /\ reply # NoCall
    /\ reply.type = "generate"
    /\ reply.status = "generating"
    /\ reply.progress = 1
    /\ reply.estimatedTimeRemaining = 476

\* C30 (as claimed): listJobs(limit, offset) returns positions offset ..
\* offset+limit-1 of the stored jobs ordered by creation time, newest first.
C30_ListIsPageOfNewestFirst ==
    [][(/\ page' # page
        /\ page'.ok
        /\ \A i \in StoreIds : files[i] = NoJob \/ IsRecord(files[i]))
           => page'.jobs =
                 Slice(SortNewestFirst([i \in 1..Len(JobFiles) |-> files[JobFiles[i]]]),
                       page'.offset, page'.limit)]_vars

\* C32: every record stored for a job, whatever runner update or cancel
\* request wrote it, carries the id and the type the job was created with.
C32_IdAndTypeImmutable ==
    \A j \in Jobs :
        HasJob(j) =>
            /\ HasField(j, "id")
            /\ HasField(j, "type")
            /\ store[j].id = j
            /\ store[j].type = jtype[j]

\* C32 witness: a modernize job cancelled after its runner failed, its record
\* written by createJob, the runner, the catch block and the cancel handler.
C32_Witness ==
    \E j \in Jobs :
        /\ StatusIs(j, "cancelled")
        /\ HasField(j, "failedAt")
        /\ HasField(j, "progress")
        /\ store[j].id = j
        /\ store[j].type = "modernize"

\* C33 (as claimed): once every requested platform of a
\* generateMultiPlatformApp call has settled, fulfilled or rejected,
\* generateDocumentation is being performed or has been performed.
C33_DocumentationAlwaysPerformed ==
    \A j \in Jobs :
        (/\ gpc[j] \notin {"none", "ensure"}
         /\ \A p \in platforms[j] : task[j][p] \in {"fulfilled", "rejected"})
            => \/ gpc[j] \in {"doc", "returned"}
               \/ (gpc[j] = "raised" /\ \A p \in platforms[j] : task[j][p] = "fulfilled")

\* C36 (as claimed): when the runner of a started job has ended, by return or
\* by an error leaving its catch block, the job has a persisted record with a
\* terminal status.
C36_EndedRunnerLeftTerminalStatus ==
    \A j \in Jobs :
        pc[j] \in {"done", "crashed"} =>
            (HasJob(j) /\ store[j].status \in Terminal)

\* C37 (as claimed): while the persisted status of a generate job is completed
\* or failed, no platform callback of the job is at its model call or writing
\* files.
C37_NoWorkAfterTerminal ==
    \A j \in Jobs :
        (jtype[j] = "generate" /\ HasJob(j) /\ store[j].status \in {"completed", "failed"})
            => \A p \in Platforms : ~InFlight(j, p)

\* C38 (as claimed): the write of a cancel request takes effect only on a
\* record whose status is neither completed nor failed, and it changes only
\* status, cancelledAt and updatedAt of the record stored at that moment.
C38_CancelWriteGuarded ==
    [][\A j \in Jobs :
          (cpc[j] = "upd_write" /\ cpc'[j] = "idle" /\ HasJob(j))
              => /\ store[j].status \notin {"completed", "failed"}
                 /\ \A f \in DOMAIN store[j] \ {"status", "cancelledAt", "updatedAt"} :
                       f \in DOMAIN store'[j] /\ store'[j][f] = store[j][f]]_vars

\* C34: the file list a platform generator returns names, position by
\* position, the files whose writes completed, in the order they were
\* written; and once a write has failed the generator has raised, with no
\* list in its outcome.
C34_ListedFilesWereWritten ==
    agent # NoCall =>
        /\ agent.pc = "returned" =>
              /\ "files" \in DOMAIN agent.out
              /\ \A k \in 1..Len(agent.out.files) :
                    k <= Len(agent.written) /\ agent.out.files[k] = agent.written[k]
        /\ agent.failed =>
              /\ agent.pc = "raised"
              /\ "files" \notin DOMAIN agent.out

\* C34 witness: a generateCode call returned a list of two files, both
\* written.
C34_Witness ==
    /\ agent # NoCall
    /\ agent.pc = "returned"
    /\ Len(agent.out.files) >= 2
    /\ agent.written = agent.out.files

\* C35: called on the same text, the parseAIResponse methods of the seven
\* components either all return, with the same value, or all raise.
C35_CopiesEquivalent ==
    outs # NoCall =>
        \A c, d \in Components :
            /\ outs[c].ok = outs[d].ok
            /\ outs[c].ok => outs[c].value = outs[d].value

\* C35 witness: the seven methods were called on a text that is not JSON but
\* holds a fenced block, and returned the block's value.
C35_Witness ==
    /\ outs # NoCall
    /\ ~JSONParse(responseText).ok
    /\ JsonMatch(responseText) # << >>
    /\ \A c \in Components : outs[c].ok

\* The call of parseAIResponse taken step by step ends with the outcome the
\* components' methods compute.
C35_StepsAgree ==
    ppc = "done" /\ tier # 0 => \A c \in Components : out = ParseOf(c, responseText)

\* C39: during and after a cleanupOldJobs(maxAge) call, a record differs from
\* what the directory held at the call only by having been removed, and only
\* if its age since createdAt exceeds maxAge and its status is completed or
\* failed; the count the call returns is the number of records removed.
C39_CleanupRemovesOnlyExpired ==
    cleanup # NoCall =>
        /\ \A i \in StoreIds :
              files[i] # cleanup.before[i] =>
                  /\ cleanup.before[i] # NoJob
                  /\ files[i] = NoJob
                  /\ cleanup.now - cleanup.before[i].createdAt > cleanup.maxAge
                  /\ cleanup.before[i].status \in {"completed", "failed"}
        /\ cleanup.pc = "returned" =>
              cleanup.out.cleaned =
                  Cardinality({i \in StoreIds : files[i] # cleanup.before[i]})

\* C39 witness: a call returned 1 having removed an old failed record and kept
\* a record just as old that was cancelled.
C39_Witness ==
    /\ cleanup # NoCall
    /\ cleanup.pc = "returned"
    /\ cleanup.out.cleaned = 1
    /\ \E i, k \in StoreIds :
          /\ cleanup.before[i] # NoJob
          /\ cleanup.before[i].status = "failed"
          /\ files[i] = NoJob
          /\ files[k] # NoJob
          /\ files[k] = cleanup.before[k]
          /\ files[k].status = "cancelled"
          /\ files[k].createdAt = cleanup.before[i].createdAt

\* C31: every operation performed for a job (createJob, a step of its
\* pipeline, deleteJob) leaves the stored record of the other job unchanged,
\* and a job whose runner has not ended always has a step it can take,
\* whatever the other job is doing.
C31_JobsIndependent ==
    /\ [][\A a \in JobPair :
             PairStep(a) => \A b \in JobPair \ {a} : store'[b] = store[b]]_vars
    /\ [](\A a \in JobPair :
             pc[a] \notin {"idle", "done", "crashed"} => ENABLED RunStep(a))

\* C31 witness: both jobs are under way, each with its own record, one of
\* them past its first update and the other deleted and written again.
C31_Witness ==
    /\ StatusIs("J1", "analyzing")
    /\ StatusIs("J2", "generating")
    /\ pc["J1"] \notin {"idle", "done", "crashed"}
    /\ pc["J2"] \notin {"idle", "done", "crashed"}
    /\ ndelete["J2"] = 1

====
